---------------------------- MODULE Spec2Model ----------------------------
(***************************************************************************)
(* A model of the object-storage clients of tools-common (objgcp, objaws). *)
(*                                                                         *)
(* A bucket is a function from the keys that exist to their bodies.  Keys  *)
(* are sequences of atoms (strings) and "starts with" is the sequence      *)
(* prefix relation; bodies are sequences of blocks.  A client call is a    *)
(* record (its arguments, its position `pc`, its locals, the requests it   *)
(* has issued in `log`, its result in `ret`); Step runs a call up to and   *)
(* including its next storage request and Run runs it to its return.       *)
(* The sequential specifications take a whole call as one action (Run);    *)
(* the concurrent one interleaves the Steps of two calls.                  *)
(***************************************************************************)
EXTENDS Integers, Sequences, FiniteSets, TLC

VARIABLES
    provider,   \* "gcp" or "aws": the Client implementation in use
    objects,    \* the bucket: [keys that exist -> body]
    uploads,    \* AWS only: the server's multipart sessions
    session,    \* the caller's open multipart session: id, key, parts held
                \* (SpecRetry: the run of the retryer; SpecArgs: the
                \* argument lists and the flags)
    last,       \* the call that returned last (arguments, log, result)
    calls,      \* the calls in flight (concurrent specification)
    uuids       \* how many uuid.NewString() values have been drawn

vars == <<provider, objects, uploads, session, last, calls, uuids>>

----------------------------------------------------------------------------
(* Bounds of the model *)

\* The largest number of parts uploaded in a session
MaxParts == 64

\* The largest number of keys one listing request returns
ListPageSize == 2

\* The largest number of AbortMultipartUpload calls made for a session
MaxAborts == 2

\* The number of calls a client makes one after another
MaxCalls == 2

\* The largest number of blocks of the data of one append
MaxData == 2

----------------------------------------------------------------------------
(* Program constants *)

MaxComposable == 32

----------------------------------------------------------------------------
(* Values *)

Nil == <<>>

\* errors are chains of labels, outermost first; Nil is no error
Wrap(label, err) == <<label>> \o err

ErrNotFound == <<"NotFoundError">>

ErrUnsupportedOperation == <<"UnsupportedOperationError">>

IsNotFoundError(err) == err # Nil /\ err[Len(err)] = "NotFoundError"

StartsWith(key, prefix) ==
    /\ Len(prefix) <= Len(key)
    /\ SubSeq(key, 1, Len(prefix)) = prefix

Uuid(n) == "u" \o ToString(n)

\* <key>-mpu-<id>
partPrefix(id, key) == key \o <<"-mpu-", id>>

\* <key>-mpu-<id>/<uuid>
partKey(id, key, uuid) == partPrefix(id, key) \o <<"/", uuid>>

Put(objs, key, body) ==
    [k \in DOMAIN objs \cup {key} |-> IF k = key THEN body ELSE objs[k]]

Remove(objs, key) == [k \in DOMAIN objs \ {key} |-> objs[k]]

RECURSIVE Concat(_, _)
Concat(objs, keys) ==
    IF keys = <<>> THEN <<>>
    ELSE objs[Head(keys)] \o Concat(objs, Tail(keys))

RECURSIVE Index(_, _)
\* slices.Index: the first position of x in seq, 0 when absent
Index(seq, x) ==
    IF seq = <<>> THEN 0
    ELSE IF Head(seq) = x THEN 1
    ELSE LET i == Index(Tail(seq), x) IN IF i = 0 THEN 0 ELSE i + 1

\* slices.Delete(seq, i, i+1)
DeleteAt(seq, i) == SubSeq(seq, 1, i - 1) \o SubSeq(seq, i + 1, Len(seq))

Range(seq) == {seq[i] : i \in DOMAIN seq}

RECURSIVE TakeSet(_, _)
\* up to n elements of the set S, as a sequence
TakeSet(S, n) ==
    IF n = 0 \/ S = {} THEN <<>>
    ELSE LET x == CHOOSE y \in S : TRUE IN <<x>> \o TakeSet(S \ {x}, n - 1)

----------------------------------------------------------------------------
(* A client call *)

NewCall ==
    [ op |-> "", pc |-> "start", provider |-> "gcp",
      \* arguments
      key |-> <<>>, data |-> <<>>, id |-> "", number |-> 0, parts |-> <<>>,
      src |-> <<>>, prefix |-> <<>>, delimiter |-> "", keys |-> <<>>,
      br |-> [nil |-> TRUE, Start |-> 0, End |-> 0],
      include |-> [nil |-> TRUE, pats |-> <<>>],
      exclude |-> [nil |-> TRUE, pats |-> <<>>],
      \* the environment's choices: which requests fail, which keys the
      \* service refuses to delete, whether the worker
      \* pool still runs queued deletes after a failure, at which object
      \* the caller's visit function returns an error
      faults |-> {}, denied |-> {}, drain |-> FALSE, visitErrAt |-> 0,
      \* locals
      remaining |-> <<>>, defers |-> <<>>, converted |-> <<>>,
      queue |-> <<>>, after |-> "", err |-> Nil, delErr |-> Nil, size |-> 0,
      seen |-> {}, buffer |-> <<>>, more |-> FALSE, fresh |-> 0,
      bodies |-> 0, closed |-> 0,
      \* results
      ret |-> Nil, out |-> <<>>, log |-> <<>>, logged |-> <<>>,
      visited |-> <<>>,
      \* the bucket when the call began and the stage the caller's session
      \* was in
      before |-> <<>>, uploadsBefore |-> <<>>, freshBefore |-> 0,
      stage |-> "" ]

\* the requests of the given kind the call has issued
Issued(c, kind) == SelectSeq(c.log, LAMBDA r : r.req = kind)

\* the environment makes the next request of this kind fail
Faulty(c, kind) == <<kind, Len(Issued(c, kind)) + 1>> \in c.faults

----------------------------------------------------------------------------
(* Byte ranges (objval.ByteRange) *)

ByteRange(start, end) == [nil |-> FALSE, Start |-> start, End |-> end]

ErrByteRangeRequired == <<"ErrByteRangeRequired">>

ErrInvalidByteRange == <<"InvalidByteRangeError">>

\* br.Valid(required)
Valid(br, required) ==
    IF br.nil
    THEN IF required THEN ErrByteRangeRequired ELSE Nil
    ELSE IF br.Start < 0 \/ br.End < br.Start THEN ErrInvalidByteRange
    ELSE Nil

\* br.ToOffsetLength(length)
ToOffsetLength(br) ==
    [offset |-> br.Start, length |-> br.End - br.Start + 1]

\* br.String(): bytes=<start>-<end>
RangeString(br) == <<"bytes=", br.Start, "-", br.End>>

\* the bytes of a body that a request for the blocks first..last yields
Slice(body, from, to) ==
    SubSeq(body, from + 1, IF to + 1 < Len(body) THEN to + 1 ELSE Len(body))

----------------------------------------------------------------------------
(* Google Cloud Storage, as the client sees it through serviceAPI *)

Matching(objs, prefix) == {k \in DOMAIN objs : StartsWith(k, prefix)}

\* the position of the first delimiter of the key behind the prefix, or 0
DelimitedAt(key, prefix, delimiter) ==
    LET at == {i \in Len(prefix) + 1..Len(key) : key[i] = delimiter}
    IN  IF delimiter = "" \/ at = {} THEN 0
        ELSE CHOOSE i \in at : \A j \in at : i <= j

\* what a listing returns for the key: the key itself or, when a delimiter
\* follows the prefix, the key up to and including that delimiter
ListEntry(key, req) ==
    LET at == DelimitedAt(key, req.prefix, req.delimiter)
    IN  IF at = 0 THEN key ELSE SubSeq(key, 1, at)

\* one page of a listing: the next entries under the prefix not yet
\* returned, objects by Name and the keys rolled up at the delimiter by
\* Prefix
GcsList(objs, req) ==
    LET rest == {ListEntry(k, req) : k \in Matching(objs, req.prefix)}
                   \ req.seen
        page == TakeSet(rest, ListPageSize)
        Stub(e) == DelimitedAt(e, req.prefix, req.delimiter) # 0
    IN  [ items |-> [i \in DOMAIN page |->
                        IF Stub(page[i])
                        THEN [Name |-> <<>>, Prefix |-> page[i], Size |-> 0]
                        ELSE [Name |-> page[i], Prefix |-> <<>>,
                              Size |-> Len(objs[page[i]])]],
          more |-> Cardinality(rest) > ListPageSize ]

\* the effect and the answer of a request that reaches the service
GcsServe(objs, req) ==
    CASE req.req = "write" ->
            [objects |-> Put(objs, req.key, req.body), err |-> "", val |-> 0]
      [] req.req = "delete" ->
            IF req.key \in DOMAIN objs
            THEN [objects |-> Remove(objs, req.key), err |-> "", val |-> 0]
            ELSE [objects |-> objs, err |-> "notfound", val |-> 0]
      [] req.req = "attrs" ->
            IF req.key \in DOMAIN objs
            THEN [objects |-> objs, err |-> "", val |-> Len(objs[req.key])]
            ELSE [objects |-> objs, err |-> "notfound", val |-> 0]
      [] req.req = "compose" ->
            IF Range(req.srcs) \subseteq DOMAIN objs
            THEN [objects |-> Put(objs, req.key, Concat(objs, req.srcs)),
                  err |-> "", val |-> 0]
            ELSE [objects |-> objs, err |-> "notfound", val |-> 0]
      [] req.req = "copy" ->
            IF req.src \in DOMAIN objs
            THEN [objects |-> Put(objs, req.key, objs[req.src]),
                  err |-> "", val |-> 0]
            ELSE [objects |-> objs, err |-> "notfound", val |-> 0]
      [] req.req = "read" ->
            IF req.key \notin DOMAIN objs
            THEN [objects |-> objs, err |-> "notfound", val |-> <<>>]
            ELSE [objects |-> objs, err |-> "",
                  val |-> SubSeq(objs[req.key], req.offset + 1,
                                 IF req.length >= 0
                                    /\ req.offset + req.length < Len(objs[req.key])
                                 THEN req.offset + req.length
                                 ELSE Len(objs[req.key]))]
      [] req.req = "list" ->
            [objects |-> objs, err |-> "", val |-> GcsList(objs, req)]

\* the call c issues req against the world w: the request is logged with its
\* outcome; a request the environment fails changes nothing
GcsRequest(c, w, req) ==
    LET Answer(r) ==
            [ c   |-> [c EXCEPT !.log = Append(@, [err |-> r.err] @@ req)],
              w   |-> [w EXCEPT !.objects = r.objects],
              err |-> r.err,
              val |-> r.val ]
    IN  Answer(IF Faulty(c, req.req)
               THEN [objects |-> w.objects, err |-> "internal", val |-> 0]
               ELSE IF req.req = "delete" /\ req.key \in c.denied
               THEN [objects |-> w.objects, err |-> "forbidden", val |-> 0]
               ELSE GcsServe(w.objects, req))

\* objgcp.handleError: the provider's error, normalised
GcpHandleError(err) ==
    CASE err = "" -> Nil
      [] err = "notfound" -> ErrNotFound
      [] OTHER -> <<"ProviderError", err>>

----------------------------------------------------------------------------
(* objgcp.Client.  Each operator takes the call c at one of its positions   *)
(* and the world w, and gives the call and the world after the code up to   *)
(* and including its next storage request.                                  *)

Return(c, w, err) == [c |-> [c EXCEPT !.pc = "done", !.ret = err], w |-> w]

Goto(c, w, pc) == [c |-> [c EXCEPT !.pc = pc], w |-> w]

Part(id, number, size) == [ID |-> id, Number |-> number, Size |-> size]

NoPart == Part(<<>>, 0, 0)

GcpGetObjectAttrs(c, w, key) ==
    LET Attrs(r) ==
            [c |-> r.c, w |-> r.w, err |-> GcpHandleError(r.err),
             size |-> r.val]
    IN  Attrs(GcsRequest(c, w, [req |-> "attrs", key |-> key]))

\* the object a successful GetObject returns
Object(key, body) == [Key |-> key, Size |-> Len(body), Body |-> body]

\* pc "start" of GetObject
GcpGetObject(c, w) ==
    LET Read(r) ==
            IF r.err # ""
            THEN Return(r.c, r.w, GcpHandleError(r.err))
            ELSE Return([r.c EXCEPT !.out = Object(c.key, r.val)], r.w, Nil)
    IN  IF Valid(c.br, FALSE) # Nil
        THEN Return(c, w, Valid(c.br, FALSE))
        ELSE Read(GcsRequest(c, w,
                 [req |-> "read", key |-> c.key,
                  offset |-> IF c.br.nil THEN 0
                             ELSE ToOffsetLength(c.br).offset,
                  length |-> IF c.br.nil THEN -1
                             ELSE ToOffsetLength(c.br).length]))

GcpPutObject(c, w, key, body) ==
    LET Closed(r) == [c |-> r.c, w |-> r.w, err |-> GcpHandleError(r.err)]
    IN  Closed(GcsRequest(c, w, [req |-> "write", key |-> key, body |-> body]))

\* pc "start" of PutObject
GcpPutObjectCall(c, w) ==
    LET Done(r) == Return(r.c, r.w, r.err)
    IN  Done(GcpPutObject(c, w, c.key, c.data))

GcpCreateMultipartUpload(c) == Uuid(c.fresh)

\* pc "start" of CreateMultipartUpload
GcpCreateMultipartUploadCall(c, w) ==
    Return([c EXCEPT !.out = GcpCreateMultipartUpload(c), !.fresh = @ + 1],
           w, Nil)

\* GcpUploadPart deriving the key of the part from its number
GcpUploadPartNumberedKey(c, w, id, key, number, body) ==
    LET intermediate == partKey(id, key, ToString(number))
        Uploaded(r) ==
            [ c |-> r.c, w |-> r.w, err |-> r.err,
              part |-> IF r.err # Nil THEN NoPart
                       ELSE Part(intermediate, number, Len(body)) ]
    IN  Uploaded(GcpPutObject([c EXCEPT !.fresh = @ + 1], w, intermediate,
                              body))

\* UploadPart(id, key, number, body): the part and the error
GcpUploadPart(c, w, id, key, number, body) ==
    LET intermediate == partKey(id, key, Uuid(c.fresh))
        Uploaded(r) ==
            [ c |-> r.c, w |-> r.w, err |-> r.err,
              part |-> IF r.err # Nil THEN NoPart
                       ELSE Part(intermediate, number, Len(body)) ]
    IN  Uploaded(GcpPutObject([c EXCEPT !.fresh = @ + 1], w, intermediate,
                              body))

\* pc "start" of UploadPart
GcpUploadPartCall(c, w) ==
    LET Done(r) == Return([r.c EXCEPT !.out = r.part], r.w, r.err)
    IN  Done(GcpUploadPart(c, w, c.id, c.key, c.number, c.data))

\* GcpUploadPartCopy copying whatever the byte range is
GcpUploadPartCopyAnyRange(c, w) ==
    LET Got(r) ==
            IF r.err # Nil
            THEN Return(r.c, r.w, Wrap("failed to get object attributes", r.err))
            ELSE [c |-> [r.c EXCEPT !.pc = "copy", !.size = r.size], w |-> r.w]
        Copied(r) ==
            IF r.err # ""
            THEN Return(r.c, r.w, GcpHandleError(r.err))
            ELSE Return([r.c EXCEPT !.out = Part(r.c.log[Len(r.c.log)].key, 0,
                                                 c.size)],
                        r.w, Nil)
    IN  CASE c.pc = "start" ->
                IF Valid(c.br, FALSE) # Nil
                THEN Return(c, w, Valid(c.br, FALSE))
                ELSE Got(GcpGetObjectAttrs(c, w, c.src))
          [] c.pc = "copy" ->
                Copied(GcsRequest([c EXCEPT !.fresh = @ + 1], w,
                          [req |-> "copy", src |-> c.src,
                           key |-> partKey(c.id, c.key, Uuid(c.fresh))]))

\* UploadPartCopy(id, dst, src, number, br); pc "start": the range is
\* validated and the attributes of the source are asked for, then a range
\* that is not the whole source is refused; pc "copy": the source is copied
\* to a new intermediate
GcpUploadPartCopy(c, w) ==
    LET Got(r) ==
            IF r.err # Nil
            THEN Return(r.c, r.w, Wrap("failed to get object attributes", r.err))
            ELSE IF ~c.br.nil /\ ~(c.br.Start = 0 /\ c.br.End = r.size - 1)
            THEN Return(r.c, r.w, ErrUnsupportedOperation)
            ELSE [c |-> [r.c EXCEPT !.pc = "copy", !.size = r.size], w |-> r.w]
        Copied(r) ==
            IF r.err # ""
            THEN Return(r.c, r.w, GcpHandleError(r.err))
            ELSE Return([r.c EXCEPT !.out = Part(r.c.log[Len(r.c.log)].key, 0,
                                                 c.size)],
                        r.w, Nil)
    IN  CASE c.pc = "start" ->
                IF Valid(c.br, FALSE) # Nil
                THEN Return(c, w, Valid(c.br, FALSE))
                ELSE Got(GcpGetObjectAttrs(c, w, c.src))
          [] c.pc = "copy" ->
                Copied(GcsRequest([c EXCEPT !.fresh = @ + 1], w,
                          [req |-> "copy", src |-> c.src,
                           key |-> partKey(c.id, c.key, Uuid(c.fresh))]))

\* GcpAppendToObjectStart taking an empty object for an object to extend
GcpAppendToObjectStartNoSizeTest(c, w) ==
    LET Got(r) ==
            IF IsNotFoundError(r.err)
            THEN Goto(r.c, r.w, "put")
            ELSE IF r.err # Nil
            THEN Goto(r.c, r.w, "panic")
            ELSE [c |-> [r.c EXCEPT !.pc = "uploadpart", !.size = r.size,
                                    !.id = GcpCreateMultipartUpload(r.c),
                                    !.fresh = @ + 1],
                  w |-> r.w]
    IN  Got(GcpGetObjectAttrs(c, w, c.key))

\* pc "start" of AppendToObject: the attributes decide how to append
GcpAppendToObjectStart(c, w) ==
    LET Got(r) ==
            IF IsNotFoundError(r.err)
            THEN Goto(r.c, r.w, "put")
            ELSE IF r.err # Nil
            \* attrs is nil, and attrs.Size is read before err is looked at
            THEN Goto(r.c, r.w, "panic")
            ELSE IF r.size = 0
            THEN Goto(r.c, r.w, "put")
            ELSE [c |-> [r.c EXCEPT !.pc = "uploadpart", !.size = r.size,
                                    !.id = GcpCreateMultipartUpload(r.c),
                                    !.fresh = @ + 1],
                  w |-> r.w]
    IN  Got(GcpGetObjectAttrs(c, w, c.key))

\* GcpAppendToObjectUpload handing the new part over before the object
GcpAppendToObjectUploadNewFirst(c, w) ==
    LET Uploaded(r) ==
            IF r.err # Nil
            THEN Return(r.c, r.w, Wrap("failed to upload part", r.err))
            ELSE [c |-> [r.c EXCEPT !.pc = "cmu",
                            !.parts = <<r.part, Part(c.key, 1, c.size)>>],
                  w |-> r.w]
    IN  Uploaded(GcpUploadPart(c, w, c.id, c.key, 2, c.data))

\* pc "uploadpart" of AppendToObject
GcpAppendToObjectUpload(c, w) ==
    LET Uploaded(r) ==
            IF r.err # Nil
            THEN Return(r.c, r.w, Wrap("failed to upload part", r.err))
            ELSE [c |-> [r.c EXCEPT !.pc = "cmu",
                            !.parts = <<Part(c.key, 1, c.size), r.part>>],
                  w |-> r.w]
    IN  Uploaded(GcpUploadPart(c, w, c.id, c.key, 2, c.data))

\* pc "start", "put", "uploadpart" of AppendToObject
GcpAppendToObject(c, w) ==
    CASE c.pc = "start" -> GcpAppendToObjectStart(c, w)
      [] c.pc = "put" -> GcpPutObjectCall(c, w)
      [] c.pc = "uploadpart" -> GcpAppendToObjectUpload(c, w)

\* compose the given parts into a single object
GcpCompose(c, w, key, parts) ==
    LET Composed(r) == [c |-> r.c, w |-> r.w, err |-> GcpHandleError(r.err)]
    IN  Composed(GcsRequest(c, w, [req |-> "compose", key |-> key,
                                   srcs |-> parts]))

\* complete recursing with the intermediate behind the remaining sources
GcpCompleteIntermediateLast(c, w) ==
    LET intermediate == partKey(Uuid(c.fresh), c.key, Uuid(c.fresh + 1))
        Last(r) == [c |-> [r.c EXCEPT !.pc = "unwind", !.err = r.err],
                    w |-> r.w]
        Merged(r) ==
            IF r.err # Nil
            THEN [c |-> [r.c EXCEPT !.pc = "unwind", !.err = r.err],
                  w |-> r.w]
            ELSE [c |-> [r.c EXCEPT !.remaining =
                            SubSeq(c.remaining, MaxComposable + 1,
                                   Len(c.remaining)) \o <<intermediate>>],
                  w |-> r.w]
    IN  IF Len(c.remaining) <= MaxComposable
        THEN Last(GcpCompose(c, w, c.key, c.remaining))
        ELSE Merged(GcpCompose([c EXCEPT !.fresh = @ + 2,
                                         !.defers = <<intermediate>> \o @],
                               w, intermediate,
                               SubSeq(c.remaining, 1, MaxComposable)))

\* complete recursing without the intermediate it has just composed
GcpCompleteDropsIntermediate(c, w) ==
    LET intermediate == partKey(Uuid(c.fresh), c.key, Uuid(c.fresh + 1))
        Last(r) == [c |-> [r.c EXCEPT !.pc = "unwind", !.err = r.err],
                    w |-> r.w]
        Merged(r) ==
            IF r.err # Nil
            THEN [c |-> [r.c EXCEPT !.pc = "unwind", !.err = r.err],
                  w |-> r.w]
            ELSE [c |-> [r.c EXCEPT !.remaining =
                            SubSeq(c.remaining, MaxComposable + 1,
                                   Len(c.remaining))],
                  w |-> r.w]
    IN  IF Len(c.remaining) <= MaxComposable
        THEN Last(GcpCompose(c, w, c.key, c.remaining))
        ELSE Merged(GcpCompose([c EXCEPT !.fresh = @ + 2,
                                         !.defers = <<intermediate>> \o @],
                               w, intermediate,
                               SubSeq(c.remaining, 1, MaxComposable)))

\* GcpComplete with the slice of the remaining parts off by one
GcpCompleteOffByOne(c, w) ==
    LET intermediate == partKey(Uuid(c.fresh), c.key, Uuid(c.fresh + 1))
        Last(r) == [c |-> [r.c EXCEPT !.pc = "unwind", !.err = r.err],
                    w |-> r.w]
        Merged(r) ==
            IF r.err # Nil
            THEN [c |-> [r.c EXCEPT !.pc = "unwind", !.err = r.err],
                  w |-> r.w]
            ELSE [c |-> [r.c EXCEPT !.remaining = <<intermediate>> \o
                            SubSeq(c.remaining, MaxComposable,
                                   Len(c.remaining))],
                  w |-> r.w]
    IN  IF Len(c.remaining) <= MaxComposable
        THEN Last(GcpCompose(c, w, c.key, c.remaining))
        ELSE Merged(GcpCompose([c EXCEPT !.fresh = @ + 2,
                                         !.defers = <<intermediate>> \o @],
                               w, intermediate,
                               SubSeq(c.remaining, 1, MaxComposable)))

\* pc "complete": one level of the recursion of complete; the deferred
\* cleanups of the levels entered are kept in defers, innermost first
GcpComplete(c, w) ==
    LET intermediate == partKey(Uuid(c.fresh), c.key, Uuid(c.fresh + 1))
        Last(r) == [c |-> [r.c EXCEPT !.pc = "unwind", !.err = r.err],
                    w |-> r.w]
        Merged(r) ==
            IF r.err # Nil
            THEN [c |-> [r.c EXCEPT !.pc = "unwind", !.err = r.err],
                  w |-> r.w]
            ELSE [c |-> [r.c EXCEPT !.remaining = <<intermediate>> \o
                            SubSeq(c.remaining, MaxComposable + 1,
                                   Len(c.remaining))],
                  w |-> r.w]
    IN  IF Len(c.remaining) <= MaxComposable
        THEN Last(GcpCompose(c, w, c.key, c.remaining))
        ELSE Merged(GcpCompose([c EXCEPT !.fresh = @ + 2,
                                         !.defers = <<intermediate>> \o @],
                               w, intermediate,
                               SubSeq(c.remaining, 1, MaxComposable)))

\* GcpCompleteDefers with no cleanup deferred
GcpCompleteDefersNothing(c, w) == Goto(c, w, "completed")

\* pc "unwind", "unwound": the deferred cleanup(intermediate) of each level
\* of complete, as the recursion returns
GcpCompleteDefers(c, w) ==
    CASE c.pc = "unwind" ->
            IF c.defers = <<>>
            THEN Goto(c, w, "completed")
            ELSE [c |-> [c EXCEPT !.pc = "delete", !.after = "unwound",
                                  !.queue = <<Head(c.defers)>>,
                                  !.delErr = Nil, !.defers = Tail(@)],
                  w |-> w]
      [] c.pc = "unwound" ->
            \* cleanup only logs the error of DeleteObjects
            [c |-> [c EXCEPT !.pc = "unwind",
                       !.logged = IF c.delErr = Nil THEN @
                                  ELSE Append(@, c.delErr)],
             w |-> w]

\* GcpCompleteMultipartUpload returning the error of its cleanup
GcpCompleteMultipartUploadCleanupError(c, w) ==
    CASE c.pc = "cmu" ->
            LET converted == [i \in DOMAIN c.parts |-> c.parts[i].ID]
            IN  [c |-> [c EXCEPT !.pc = "complete", !.converted = converted,
                                 !.remaining = converted, !.err = Nil],
                 w |-> w]
      [] c.pc = "completed" ->
            IF c.err # Nil
            THEN Return(c, w, c.err)
            ELSE LET idx == Index(c.converted, c.key)
                     converted == IF idx >= 1 THEN DeleteAt(c.converted, idx)
                                  ELSE c.converted
                 IN  [c |-> [c EXCEPT !.pc = "delete", !.after = "cleaned",
                                      !.converted = converted,
                                      !.queue = converted, !.delErr = Nil],
                      w |-> w]
      [] c.pc = "cleaned" -> Return(c, w, c.delErr)

\* GcpCompleteMultipartUpload cleaning the parts up after a failure too
GcpCompleteMultipartUploadAlwaysCleans(c, w) ==
    CASE c.pc = "cmu" ->
            LET converted == [i \in DOMAIN c.parts |-> c.parts[i].ID]
            IN  [c |-> [c EXCEPT !.pc = "complete", !.converted = converted,
                                 !.remaining = converted, !.err = Nil],
                 w |-> w]
      [] c.pc = "completed" ->
            LET idx == Index(c.converted, c.key)
                converted == IF idx >= 1 THEN DeleteAt(c.converted, idx)
                             ELSE c.converted
            IN  [c |-> [c EXCEPT !.pc = "delete", !.after = "cleaned",
                                 !.converted = converted,
                                 !.queue = converted, !.delErr = Nil],
                 w |-> w]
      [] c.pc = "cleaned" -> Return(c, w, c.err)

\* pc "cmu", "completed", "cleaned" of CompleteMultipartUpload
GcpCompleteMultipartUpload(c, w) ==
    CASE c.pc = "cmu" ->
            LET converted == [i \in DOMAIN c.parts |-> c.parts[i].ID]
            IN  [c |-> [c EXCEPT !.pc = "complete", !.converted = converted,
                                 !.remaining = converted, !.err = Nil],
                 w |-> w]
      [] c.pc = "completed" ->
            IF c.err # Nil
            THEN Return(c, w, IF c.op = "AppendToObject"
                              THEN Wrap("failed to complete multipart upload",
                                        c.err)
                              ELSE c.err)
            ELSE LET idx == Index(c.converted, c.key)
                     converted == IF idx >= 1 THEN DeleteAt(c.converted, idx)
                                  ELSE c.converted
                 IN  [c |-> [c EXCEPT !.pc = "delete", !.after = "cleaned",
                                      !.converted = converted,
                                      !.queue = converted, !.delErr = Nil],
                      w |-> w]
      [] c.pc = "cleaned" ->
            Return([c EXCEPT !.logged = IF c.delErr = Nil THEN @
                                        ELSE Append(@, c.delErr)],
                   w, Nil)

\* pc "delete": DeleteObjects(queue...), one delete request at a time; the
\* pool takes no more work after the first error, and with drain the work
\* already queued still runs
GcpDeleteObjects(c, w) ==
    LET Deleted(r) ==
            [c |-> [r.c EXCEPT
                      !.queue = IF r.err \notin {"", "notfound"} /\ ~c.drain
                                THEN <<>> ELSE Tail(@),
                      !.delErr = IF r.err \notin {"", "notfound"} /\ @ = Nil
                                 THEN GcpHandleError(r.err) ELSE @],
             w |-> r.w]
    IN  IF c.queue = <<>>
        THEN Goto(c, w, c.after)
        ELSE Deleted(GcsRequest(c, w, [req |-> "delete",
                                       key |-> Head(c.queue)]))

ErrIncludeAndExcludeAreMutuallyExclusive ==
    <<"ErrIncludeAndExcludeAreMutuallyExclusive">>

\* the error the caller's visit function returns
ErrVisit == <<"visit error">>

\* a pattern is the set of names it matches
MatchesAny(filter, name) == \E i \in DOMAIN filter.pats : name \in filter.pats[i]

\* objcli.ShouldIgnore
ShouldIgnore(name, include, exclude) ==
    \/ ~include.nil /\ ~MatchesAny(include, name)
    \/ ~exclude.nil /\ MatchesAny(exclude, name)

\* the caller's visit function is invoked with attrs; the trace of visits
\* keeps how many requests the call had issued by then
Visit(c, attrs) ==
    [c EXCEPT !.visited = Append(@, [Key |-> attrs.Key, Size |-> attrs.Size,
                                     requests |-> Len(c.log)])]

\* the fn handed to IterateObjects, applied to attrs: DeleteDirectory deletes
\* the object, ListParts collects it, a caller's function visits it
GcpIterateFunc(c, w, attrs) ==
    CASE c.op \in {"DeleteDirectory", "AbortMultipartUpload"} ->
            [c |-> [c EXCEPT !.pc = "delete", !.after = "fnret",
                             !.queue = <<attrs.Key>>, !.delErr = Nil],
             w |-> w]
      [] c.op = "ListParts" ->
            [c |-> [c EXCEPT !.out = Append(@, Part(attrs.Key, 0, attrs.Size))],
             w |-> w]
      [] OTHER ->
            IF Len(c.visited) + 1 = c.visitErrAt
            THEN Return(Visit(c, attrs), w, ErrVisit)
            ELSE [c |-> Visit(c, attrs), w |-> w]

\* it.Next() with nothing buffered: the next page of the listing
GcpIteratorFetch(c, w) ==
    LET Listed(r) ==
            IF r.err # ""
            THEN Return(r.c, r.w, Wrap("failed to get next object", <<r.err>>))
            ELSE [c |-> [r.c EXCEPT
                           !.buffer = r.val.items,
                           !.more = r.val.more,
                           !.seen = @ \cup {r.val.items[i].Prefix \o
                                               r.val.items[i].Name :
                                               i \in DOMAIN r.val.items}],
                  w |-> r.w]
    IN  Listed(GcsRequest(c, w, [req |-> "list", prefix |-> c.prefix,
                                 delimiter |-> c.delimiter, seen |-> c.seen]))

\* the body of the loop of IterateObjects for the object remote
GcpIterateOne(c, w, remote) ==
    LET stub == remote.Prefix # <<>>
        attrs == [Key |-> IF stub THEN remote.Prefix ELSE remote.Name,
                  Size |-> IF stub THEN 0 ELSE remote.Size]
    IN  IF ShouldIgnore(remote.Name, c.include, c.exclude)
        THEN [c |-> c, w |-> w]
        ELSE GcpIterateFunc(c, w, attrs)

\* GcpIterateObjects without the test of include and exclude
GcpIterateObjectsNoTest(c, w) ==
    CASE c.pc = "iterate" ->
            [c |-> [c EXCEPT !.pc = "next", !.seen = {},
                             !.buffer = <<>>, !.more = TRUE],
             w |-> w]
      [] c.pc = "next" ->
            IF c.buffer = <<>> /\ ~c.more
            THEN Return(c, w, Nil)
            ELSE IF c.buffer = <<>>
            THEN GcpIteratorFetch(c, w)
            ELSE GcpIterateOne([c EXCEPT !.buffer = Tail(@)], w,
                               Head(c.buffer))
      [] c.pc = "fnret" ->
            IF c.delErr # Nil
            THEN Return(c, w, c.delErr)
            ELSE Goto(c, w, "next")

\* pc "iterate", "next", "fnret" of IterateObjects
GcpIterateObjects(c, w) ==
    CASE c.pc = "iterate" ->
            IF ~c.include.nil /\ ~c.exclude.nil
            THEN Return(c, w, ErrIncludeAndExcludeAreMutuallyExclusive)
            ELSE [c |-> [c EXCEPT !.pc = "next", !.seen = {},
                                  !.buffer = <<>>, !.more = TRUE],
                  w |-> w]
      [] c.pc = "next" ->
            IF c.buffer = <<>> /\ ~c.more
            THEN \* iterator.Done
                 Return(c, w, Nil)
            ELSE IF c.buffer = <<>>
            THEN GcpIteratorFetch(c, w)
            ELSE GcpIterateOne([c EXCEPT !.buffer = Tail(@)], w,
                               Head(c.buffer))
      [] c.pc = "fnret" ->
            IF c.delErr # Nil
            THEN Return(c, w, c.delErr)
            ELSE Goto(c, w, "next")

\* GcpListParts listing without a delimiter
GcpListPartsNoDelimiter(c, w) ==
    LET Listed(r) ==
            IF r.c.pc = "done" /\ r.c.ret # Nil
            THEN [c |-> [r.c EXCEPT
                           !.out = <<>>,
                           !.ret = SubSeq(@, 1, Len(@) - 1)
                                      \o GcpHandleError(@[Len(@)])],
                  w |-> r.w]
            ELSE r
    IN  IF c.pc = "start"
        THEN [c |-> [c EXCEPT !.pc = "iterate", !.out = <<>>,
                              !.prefix = partPrefix(c.id, c.key),
                              !.delimiter = "",
                              !.include = NewCall.include,
                              !.exclude = NewCall.exclude],
              w |-> w]
        ELSE Listed(GcpIterateObjects(c, w))

\* ListParts: pc "start" sets up IterateObjects under the prefix of the
\* parts with the delimiter "/"; fn collects a Part for each object; the
\* error of the iteration goes through handleError and no parts
GcpListParts(c, w) ==
    LET Listed(r) ==
            IF r.c.pc = "done" /\ r.c.ret # Nil
            THEN [c |-> [r.c EXCEPT
                           !.out = <<>>,
                           !.ret = SubSeq(@, 1, Len(@) - 1)
                                      \o GcpHandleError(@[Len(@)])],
                  w |-> r.w]
            ELSE r
    IN  IF c.pc = "start"
        THEN [c |-> [c EXCEPT !.pc = "iterate", !.out = <<>>,
                              !.prefix = partPrefix(c.id, c.key),
                              !.delimiter = "/",
                              !.include = NewCall.include,
                              !.exclude = NewCall.exclude],
              w |-> w]
        ELSE Listed(GcpIterateObjects(c, w))

\* pc "start" of DeleteDirectory
GcpDeleteDirectory(c, w) ==
    [c |-> [c EXCEPT !.pc = "iterate", !.delimiter = "",
                     !.include = NewCall.include, !.exclude = NewCall.exclude],
     w |-> w]

\* GcpAbortMultipartUpload listing under a prefix built from the wrong key
GcpAbortMultipartUploadWrongPrefix(c, w) ==
    GcpDeleteDirectory([c EXCEPT !.prefix = partPrefix(c.id, c.prefix)], w)

\* GcpAbortMultipartUpload deleting whatever the session's id appears in
GcpAbortMultipartUploadAnyKey(c, w) ==
    GcpDeleteDirectory([c EXCEPT !.prefix = <<>>], w)

\* pc "start" of AbortMultipartUpload
GcpAbortMultipartUpload(c, w) ==
    GcpDeleteDirectory([c EXCEPT !.prefix = partPrefix(c.id, c.key)], w)

\* pc "start", "deleted" of DeleteObjects
GcpDeleteObjectsCall(c, w) ==
    CASE c.pc = "start" ->
            [c |-> [c EXCEPT !.pc = "delete", !.after = "deleted",
                             !.queue = c.keys, !.delErr = Nil],
             w |-> w]
      [] c.pc = "deleted" -> Return(c, w, c.delErr)

Returned(c) == c.pc \in {"done", "panic"}

\* pc "start": the first line of the operation called
GcpStart(c, w) ==
    CASE c.op = "GetObject" -> GcpGetObject(c, w)
      [] c.op = "PutObject" -> GcpPutObjectCall(c, w)
      [] c.op = "AppendToObject" -> GcpAppendToObject(c, w)
      [] c.op = "CreateMultipartUpload" -> GcpCreateMultipartUploadCall(c, w)
      [] c.op = "UploadPart" -> GcpUploadPartCall(c, w)
      [] c.op = "UploadPartCopy" -> GcpUploadPartCopy(c, w)
      [] c.op = "CompleteMultipartUpload" ->
            GcpCompleteMultipartUpload([c EXCEPT !.pc = "cmu"], w)
      [] c.op = "AbortMultipartUpload" -> GcpAbortMultipartUpload(c, w)
      [] c.op = "ListParts" -> GcpListParts(c, w)
      [] c.op = "DeleteDirectory" -> GcpDeleteDirectory(c, w)
      [] c.op = "DeleteObjects" -> GcpDeleteObjectsCall(c, w)
      [] c.op = "IterateObjects" ->
            GcpIterateObjects([c EXCEPT !.pc = "iterate"], w)

\* the call up to and including its next storage request
GcpStep(c, w) ==
    CASE c.pc = "start" -> GcpStart(c, w)
      [] c.pc \in {"put", "uploadpart"} -> GcpAppendToObject(c, w)
      [] c.pc = "copy" -> GcpUploadPartCopy(c, w)
      [] c.pc \in {"cmu", "completed", "cleaned"} ->
            GcpCompleteMultipartUpload(c, w)
      [] c.pc = "complete" -> GcpComplete(c, w)
      [] c.pc \in {"unwind", "unwound"} -> GcpCompleteDefers(c, w)
      [] c.pc = "delete" -> GcpDeleteObjects(c, w)
      [] c.pc = "deleted" -> GcpDeleteObjectsCall(c, w)
      [] c.pc \in {"iterate", "next", "fnret"} ->
            IF c.op = "ListParts" THEN GcpListParts(c, w)
            ELSE GcpIterateObjects(c, w)

----------------------------------------------------------------------------
(* Amazon S3, as the client sees it through serviceAPI *)

MinUploadSize == 5

PageSize == 1000

ETag(body) == [md5 |-> body]

S3List(objs, req) ==
    LET rest == Matching(objs, req.prefix) \ req.seen
        page == TakeSet(rest, ListPageSize)
    IN  [ items |-> [i \in DOMAIN page |->
                        [Key |-> page[i], Size |-> Len(objs[page[i]])]],
          more |-> Cardinality(rest) > ListPageSize ]

RECURSIVE S3Assemble(_, _)
\* the bodies of the listed parts of an upload, one after the other
S3Assemble(upload, parts) ==
    IF parts = <<>> THEN <<>>
    ELSE upload.parts[Head(parts).PartNumber] \o S3Assemble(upload, Tail(parts))

\* the parts name uploaded parts by number and ETag, in ascending order
S3PartsValid(upload, parts) ==
    /\ \A i \in DOMAIN parts :
          /\ parts[i].PartNumber \in DOMAIN upload.parts
          /\ parts[i].ETag = ETag(upload.parts[parts[i].PartNumber])
    /\ \A i, j \in DOMAIN parts :
          i < j => parts[i].PartNumber < parts[j].PartNumber

\* the keys of a batch delete that the service refuses or does not find
S3DeleteErrors(objs, req) ==
    SelectSeq([i \in DOMAIN req.keys |->
                  [Key |-> req.keys[i],
                   Code |-> IF req.keys[i] \in req.denied THEN "AccessDenied"
                            ELSE IF req.keys[i] \notin DOMAIN objs
                            THEN "NoSuchKey" ELSE ""]],
              LAMBDA e : e.Code # "")

\* the effect and the answer of a request that reaches the service
S3Serve(w, req) ==
    CASE req.req = "HeadObject" ->
            IF req.key \in DOMAIN w.objects
            THEN [w |-> w, err |-> "", val |-> Len(w.objects[req.key])]
            ELSE [w |-> w, err |-> "NotFound", val |-> 0]
      [] req.req = "GetObject" ->
            IF req.key \notin DOMAIN w.objects
            THEN [w |-> w, err |-> "NoSuchKey", val |-> <<>>]
            ELSE IF req.range = <<>>
            THEN [w |-> w, err |-> "", val |-> w.objects[req.key]]
            ELSE [w |-> w, err |-> "",
                  val |-> Slice(w.objects[req.key], req.range[2], req.range[4])]
      [] req.req = "PutObject" ->
            [w |-> [w EXCEPT !.objects = Put(@, req.key, req.body)],
             err |-> "", val |-> 0]
      [] req.req = "CreateMultipartUpload" ->
            [w |-> [w EXCEPT !.uploads =
                      Put(@, req.newid, [key |-> req.key, parts |-> <<>>])],
             err |-> "", val |-> req.newid]
      [] req.req = "UploadPart" ->
            IF req.id \notin DOMAIN w.uploads
            THEN [w |-> w, err |-> "NoSuchUpload", val |-> 0]
            ELSE [w |-> [w EXCEPT !.uploads[req.id].parts =
                           Put(@, req.number, req.body)],
                  err |-> "", val |-> ETag(req.body)]
      [] req.req = "UploadPartCopy" ->
            IF req.id \notin DOMAIN w.uploads
            THEN [w |-> w, err |-> "NoSuchUpload", val |-> 0]
            ELSE IF req.src \notin DOMAIN w.objects
            THEN [w |-> w, err |-> "NoSuchKey", val |-> 0]
            ELSE [w |-> [w EXCEPT !.uploads[req.id].parts =
                           Put(@, req.number,
                               Slice(w.objects[req.src], req.range[2],
                                     req.range[4]))],
                  err |-> "",
                  val |-> ETag(Slice(w.objects[req.src], req.range[2],
                                     req.range[4]))]
      [] req.req = "CompleteMultipartUpload" ->
            IF req.id \notin DOMAIN w.uploads
            THEN [w |-> w, err |-> "NoSuchUpload", val |-> 0]
            ELSE IF ~S3PartsValid(w.uploads[req.id], req.parts)
            THEN [w |-> w, err |-> "InvalidPart", val |-> 0]
            ELSE [w |-> [objects |-> Put(w.objects, req.key,
                                         S3Assemble(w.uploads[req.id],
                                                    req.parts)),
                         uploads |-> Remove(w.uploads, req.id)],
                  err |-> "", val |-> 0]
      [] req.req = "AbortMultipartUpload" ->
            IF req.id \notin DOMAIN w.uploads
            THEN [w |-> w, err |-> "NoSuchUpload", val |-> 0]
            ELSE [w |-> [w EXCEPT !.uploads = Remove(@, req.id)],
                  err |-> "", val |-> 0]
      [] req.req = "DeleteObjects" ->
            [w |-> [w EXCEPT !.objects =
                      [k \in DOMAIN @ \ (Range(req.keys) \ req.denied) |-> @[k]]],
             err |-> "", val |-> S3DeleteErrors(w.objects, req)]
      [] req.req = "ListObjectsV2" ->
            [w |-> w, err |-> "", val |-> S3List(w.objects, req)]

\* the call c issues req against the world w
S3Request(c, w, req) ==
    LET Answer(r) ==
            [ c   |-> [c EXCEPT !.log = Append(@, [err |-> r.err] @@ req)],
              w   |-> r.w,
              err |-> r.err,
              val |-> r.val ]
    IN  Answer(IF Faulty(c, req.req)
               THEN [w |-> w, err |-> "InternalError", val |-> 0]
               ELSE S3Serve(w, req))

\* objaws.handleError: the provider's error, normalised
AwsHandleError(err) ==
    CASE err = "" -> Nil
      [] err \in {"NotFound", "NoSuchKey"} -> ErrNotFound
      [] OTHER -> <<"ProviderError", err>>

\* an error of the SDK handed on as it is
AwsRaw(err) == IF err = "" THEN Nil ELSE <<err>>

isKeyNotFound(code) == code = "NoSuchKey"

----------------------------------------------------------------------------
(* objaws.Client.  As for objgcp.Client, each operator gives the call and   *)
(* the world after the code up to and including its next request.           *)

\* AwsGetObject sending the range without validating it
AwsGetObjectNoValidation(c, w, key, br) ==
    LET Got(r) ==
            [c |-> r.c, w |-> r.w, err |-> AwsHandleError(r.err),
             object |-> Object(key, IF r.err = "" THEN r.val ELSE <<>>)]
    IN  Got(S3Request(c, w,
                [req |-> "GetObject", key |-> key,
                 range |-> IF br.nil THEN <<>> ELSE RangeString(br)]))

AwsGetObject(c, w, key, br) ==
    LET Got(r) ==
            [c |-> r.c, w |-> r.w, err |-> AwsHandleError(r.err),
             object |-> Object(key, IF r.err = "" THEN r.val ELSE <<>>)]
    IN  IF Valid(br, FALSE) # Nil
        THEN [c |-> c, w |-> w, err |-> Valid(br, FALSE),
              object |-> Object(key, <<>>)]
        ELSE Got(S3Request(c, w,
                [req |-> "GetObject", key |-> key,
                 range |-> IF br.nil THEN <<>> ELSE RangeString(br)]))

\* pc "start" of GetObject
AwsGetObjectCall(c, w) ==
    LET Done(r) ==
            Return([r.c EXCEPT !.out = IF r.err = Nil THEN r.object ELSE @],
                   r.w, r.err)
    IN  Done(AwsGetObject(c, w, c.key, c.br))

AwsGetObjectAttrs(c, w, key) ==
    LET Attrs(r) ==
            [c |-> r.c, w |-> r.w, err |-> AwsHandleError(r.err),
             size |-> r.val]
    IN  Attrs(S3Request(c, w, [req |-> "HeadObject", key |-> key]))

AwsPutObject(c, w, key, body) ==
    LET Put1(r) == [c |-> r.c, w |-> r.w, err |-> AwsHandleError(r.err)]
    IN  Put1(S3Request(c, w, [req |-> "PutObject", key |-> key,
                              body |-> body]))

\* pc "start" of PutObject
AwsPutObjectCall(c, w) ==
    LET Done(r) == Return(r.c, r.w, r.err)
    IN  Done(AwsPutObject(c, w, c.key, c.data))

AwsCreateMultipartUpload(c, w, key) ==
    LET Created(r) ==
            [c |-> r.c, w |-> r.w, err |-> AwsHandleError(r.err),
             id |-> IF r.err = "" THEN r.val ELSE ""]
    IN  Created(S3Request([c EXCEPT !.fresh = @ + 1], w,
                          [req |-> "CreateMultipartUpload", key |-> key,
                           newid |-> Uuid(c.fresh)]))

\* pc "start" of CreateMultipartUpload
AwsCreateMultipartUploadCall(c, w) ==
    LET Done(r) == Return([r.c EXCEPT !.out = r.id], r.w, r.err)
    IN  Done(AwsCreateMultipartUpload(c, w, c.key))

AwsUploadPart(c, w, id, key, number, body) ==
    LET Uploaded(r) ==
            [c |-> r.c, w |-> r.w, err |-> AwsHandleError(r.err),
             part |-> IF r.err # "" THEN NoPart ELSE Part(r.val, number, 0)]
    IN  Uploaded(S3Request(c, w, [req |-> "UploadPart", id |-> id,
                                  key |-> key, number |-> number,
                                  body |-> body]))

\* pc "start" of UploadPart
AwsUploadPartCall(c, w) ==
    LET Done(r) == Return([r.c EXCEPT !.out = r.part], r.w, r.err)
    IN  Done(AwsUploadPart(c, w, c.id, c.key, c.number, c.data))

AwsUploadPartCopy(c, w, id, dst, src, number, br) ==
    LET Copied(r) ==
            [c |-> r.c, w |-> r.w, err |-> AwsHandleError(r.err),
             part |-> IF r.err # "" THEN NoPart ELSE Part(r.val, number, 0)]
    IN  IF Valid(br, TRUE) # Nil
        THEN [c |-> c, w |-> w, err |-> Valid(br, TRUE), part |-> NoPart]
        ELSE Copied(S3Request(c, w, [req |-> "UploadPartCopy", id |-> id,
                                     key |-> dst, src |-> src,
                                     number |-> number,
                                     range |-> RangeString(br)]))

\* pc "start" of UploadPartCopy
AwsUploadPartCopyCall(c, w) ==
    LET Done(r) == Return([r.c EXCEPT !.out = r.part], r.w, r.err)
    IN  Done(AwsUploadPartCopy(c, w, c.id, c.key, c.src, c.number, c.br))

AwsCompleteMultipartUpload(c, w, id, key, parts) ==
    LET converted == [i \in DOMAIN parts |->
                        [ETag |-> parts[i].ID, PartNumber |-> parts[i].Number]]
        Completed(r) == [c |-> r.c, w |-> r.w, err |-> AwsRaw(r.err)]
    IN  Completed(S3Request(c, w, [req |-> "CompleteMultipartUpload",
                                   id |-> id, key |-> key,
                                   parts |-> converted]))

\* pc "start" of CompleteMultipartUpload
AwsCompleteMultipartUploadCall(c, w) ==
    LET Done(r) == Return(r.c, r.w, r.err)
    IN  Done(AwsCompleteMultipartUpload(c, w, c.id, c.key, c.parts))

AwsAbortMultipartUpload(c, w, id, key) ==
    LET Aborted(r) == [c |-> r.c, w |-> r.w, err |-> AwsRaw(r.err)]
    IN  Aborted(S3Request(c, w, [req |-> "AbortMultipartUpload", id |-> id,
                                 key |-> key]))

\* pc "start" of AbortMultipartUpload
AwsAbortMultipartUploadCall(c, w) ==
    LET Done(r) == Return(r.c, r.w, r.err)
    IN  Done(AwsAbortMultipartUpload(c, w, c.id, c.key))

\* AwsAppendToObjectStart downloading an object of exactly MinUploadSize
AwsAppendToObjectStartAboveThreshold(c, w) ==
    LET Got(r) ==
            IF IsNotFoundError(r.err)
            THEN Goto(r.c, r.w, "put")
            ELSE IF r.err # Nil
            THEN Return(r.c, r.w, Wrap("failed to get object attributes", r.err))
            ELSE IF r.size <= MinUploadSize
            THEN Goto([r.c EXCEPT !.size = r.size], r.w, "download")
            ELSE Goto([r.c EXCEPT !.size = r.size], r.w, "create")
    IN  Got(AwsGetObjectAttrs(c, w, c.key))

\* pc "start" of AppendToObject: the attributes decide how to append
AwsAppendToObjectStart(c, w) ==
    LET Got(r) ==
            IF IsNotFoundError(r.err)
            THEN Goto(r.c, r.w, "put")
            ELSE IF r.err # Nil
            THEN Return(r.c, r.w, Wrap("failed to get object attributes", r.err))
            ELSE IF r.size < MinUploadSize
            THEN Goto([r.c EXCEPT !.size = r.size], r.w, "download")
            ELSE Goto([r.c EXCEPT !.size = r.size], r.w, "create")
    IN  Got(AwsGetObjectAttrs(c, w, c.key))

\* pc "download", "upload": downloadAndAppend
AwsDownloadAndAppend(c, w) ==
    LET Got(r) ==
            IF r.err # Nil
            THEN Return(r.c, r.w, Wrap("failed to get object", r.err))
            ELSE IF <<"ReadBody", 1>> \in c.faults
            THEN Return([r.c EXCEPT !.bodies = @ + 1], r.w,
                        Wrap("failed to download and append to object",
                             <<"read error">>))
            ELSE Goto([r.c EXCEPT !.bodies = @ + 1,
                                  !.buffer = r.object.Body \o c.data],
                      r.w, "upload")
        Put2(r) ==
            IF r.err # Nil
            THEN Return(r.c, r.w, Wrap("failed to upload updated object", r.err))
            ELSE Return(r.c, r.w, Nil)
    IN  CASE c.pc = "download" -> Got(AwsGetObject(c, w, c.key, NewCall.br))
          [] c.pc = "upload" -> Put2(AwsPutObject(c, w, c.key, c.buffer))

\* pc "copy", "appendpart", "completempu": copyAndAppend; its error is kept
\* in err for createMPUThenCopyAndAppend
AwsCopyAndAppend(c, w) ==
    LET Failed(r, label) ==
            Goto([r.c EXCEPT !.err = Wrap(label, r.err)], r.w, "abort")
        Copied(r) ==
            IF r.err # Nil THEN Failed(r, "failed to copy source object")
            ELSE Goto([r.c EXCEPT !.parts = <<r.part>>], r.w, "appendpart")
        Appended(r) ==
            IF r.err # Nil THEN Failed(r, "failed to upload part")
            ELSE Goto([r.c EXCEPT !.parts = Append(@, r.part)], r.w,
                      "completempu")
        Completed(r) ==
            IF r.err # Nil
            THEN Failed(r, "failed to complete multipart upload")
            ELSE Return(r.c, r.w, Nil)
    IN  CASE c.pc = "copy" ->
                Copied(AwsUploadPartCopy(c, w, c.id, c.key, c.key, 1,
                                         ByteRange(0, c.size - 1)))
          [] c.pc = "appendpart" ->
                Appended(AwsUploadPart(c, w, c.id, c.key, 2, c.data))
          [] c.pc = "completempu" ->
                Completed(AwsCompleteMultipartUpload(c, w, c.id, c.key,
                                                     c.parts))

\* AwsCreateMPUThenCopyAndAppend returning the error of copyAndAppend
\* without aborting the upload
AwsCreateMPUThenCopyAndAppendNoAbort(c, w) ==
    LET Created(r) ==
            IF r.err # Nil
            THEN Return(r.c, r.w,
                        Wrap("failed to create multipart upload", r.err))
            ELSE Goto([r.c EXCEPT !.id = r.id], r.w, "copy")
    IN  CASE c.pc = "create" -> Created(AwsCreateMultipartUpload(c, w, c.key))
          [] c.pc = "abort" -> Return(c, w, c.err)

\* pc "create", "abort": createMPUThenCopyAndAppend
AwsCreateMPUThenCopyAndAppend(c, w) ==
    LET Created(r) ==
            IF r.err # Nil
            THEN Return(r.c, r.w,
                        Wrap("failed to create multipart upload", r.err))
            ELSE Goto([r.c EXCEPT !.id = r.id], r.w, "copy")
        Aborted(r) ==
            Return([r.c EXCEPT !.logged = IF r.err = Nil THEN @
                                          ELSE Append(@, r.err)],
                   r.w, c.err)
    IN  CASE c.pc = "create" -> Created(AwsCreateMultipartUpload(c, w, c.key))
          [] c.pc = "abort" ->
                Aborted(AwsAbortMultipartUpload(c, w, c.id, c.key))

\* pc "start", "put", ... of AppendToObject
AwsAppendToObject(c, w) ==
    CASE c.pc = "start" -> AwsAppendToObjectStart(c, w)
      [] c.pc = "put" -> AwsPutObjectCall(c, w)
      [] c.pc \in {"download", "upload"} -> AwsDownloadAndAppend(c, w)
      [] c.pc \in {"create", "abort"} -> AwsCreateMPUThenCopyAndAppend(c, w)
      [] c.pc \in {"copy", "appendpart", "completempu"} ->
            AwsCopyAndAppend(c, w)

\* FirstError taking a missing key for a failure like any other
FirstErrorOfAnyCode(errors) ==
    IF errors = <<>> THEN Nil ELSE AwsHandleError(Head(errors).Code)

\* the first error of a batch delete that is not a missing key
FirstError(errors) ==
    LET bad == SelectSeq(errors, LAMBDA e : ~isKeyNotFound(e.Code))
    IN  IF bad = <<>> THEN Nil ELSE AwsHandleError(Head(bad).Code)

\* deleteObjects: one batched delete of a page of keys
AwsdeleteObjects(c, w, keys) ==
    LET Deleted(r) ==
            [c |-> r.c, w |-> r.w,
             err |-> IF r.err # "" THEN AwsHandleError(r.err)
                     ELSE FirstError(r.val)]
    IN  Deleted(S3Request(c, w, [req |-> "DeleteObjects", keys |-> keys,
                                 denied |-> c.denied]))

\* AwsDeleteObjects going on to the next batch after a batch that failed
AwsDeleteObjectsKeepsGoing(c, w) ==
    LET Deleted(r, queue) ==
            IF Len(queue) <= PageSize THEN Return(r.c, r.w, r.err)
            ELSE Goto([r.c EXCEPT !.queue = SubSeq(queue, PageSize + 1,
                                                   Len(queue))],
                      r.w, "batch")
        Batch(queue) ==
            IF queue = <<>> THEN Return(c, w, Nil)
            ELSE Deleted(AwsdeleteObjects(c, w,
                            SubSeq(queue, 1,
                                   IF Len(queue) < PageSize THEN Len(queue)
                                   ELSE PageSize)),
                         queue)
    IN  CASE c.pc = "start" -> Batch(c.keys)
          [] c.pc = "batch" -> Batch(c.queue)

\* pc "start", "batch" of DeleteObjects: the keys still to delete go out
\* in batches of at most PageSize
AwsDeleteObjects(c, w) ==
    LET Deleted(r, queue) ==
            IF r.err # Nil THEN Return(r.c, r.w, r.err)
            ELSE IF Len(queue) <= PageSize THEN Return(r.c, r.w, Nil)
            ELSE Goto([r.c EXCEPT !.queue = SubSeq(queue, PageSize + 1,
                                                   Len(queue))],
                      r.w, "batch")
        Batch(queue) ==
            IF queue = <<>> THEN Return(c, w, Nil)
            ELSE Deleted(AwsdeleteObjects(c, w,
                            SubSeq(queue, 1,
                                   IF Len(queue) < PageSize THEN Len(queue)
                                   ELSE PageSize)),
                         queue)
    IN  CASE c.pc = "start" -> Batch(c.keys)
          [] c.pc = "batch" -> Batch(c.queue)

\* one request of ListObjectsV2Pages; the page is kept in buffer
AwsListObjectsV2Page(c, w) ==
    LET Listed(r) ==
            IF r.err # ""
            THEN Return(r.c, r.w, AwsHandleError(r.err))
            ELSE [c |-> [r.c EXCEPT
                           !.pc = "page",
                           !.buffer = r.val.items,
                           !.more = r.val.more,
                           !.seen = @ \cup {r.val.items[i].Key :
                                               i \in DOMAIN r.val.items}],
                  w |-> r.w]
    IN  Listed(S3Request(c, w, [req |-> "ListObjectsV2", prefix |-> c.prefix,
                                seen |-> c.seen]))

\* pc "start", "list", "page" of DeleteDirectory: the callback deletes the
\* page and keeps the error in err; the function's last statement returns nil
AwsDeleteDirectory(c, w) ==
    LET Deleted(r) ==
            IF r.err = Nil /\ c.more
            THEN Goto([r.c EXCEPT !.err = r.err], r.w, "list")
            ELSE Return([r.c EXCEPT !.err = r.err], r.w, Nil)
    IN  CASE c.pc = "start" ->
                AwsListObjectsV2Page([c EXCEPT !.seen = {}, !.err = Nil], w)
          [] c.pc = "list" -> AwsListObjectsV2Page(c, w)
          [] c.pc = "page" ->
                Deleted(AwsdeleteObjects(c, w,
                           [i \in DOMAIN c.buffer |-> c.buffer[i].Key]))

RECURSIVE AwsiterateObjects(_, _)
\* iterateObjects: visit the objects of a page that are not ignored; the
\* error of the visit function ends the loop
AwsiterateObjects(c, objs) ==
    IF objs = <<>> THEN [c |-> c, err |-> Nil]
    ELSE IF ShouldIgnore(Head(objs).Key, c.include, c.exclude)
    THEN AwsiterateObjects(c, Tail(objs))
    ELSE IF Len(c.visited) + 1 = c.visitErrAt
    THEN [c |-> Visit(c, Head(objs)), err |-> ErrVisit]
    ELSE AwsiterateObjects(Visit(c, Head(objs)), Tail(objs))

\* AwsIterateObjects whose callback asks for the next page after an error
AwsIterateObjectsKeepsPaging(c, w) ==
    LET Visited(r) ==
            IF c.more
            THEN Goto([r.c EXCEPT !.err = r.err], w, "list")
            ELSE Return([r.c EXCEPT !.err = r.err], w, r.err)
    IN  CASE c.pc = "start" /\ ~c.include.nil /\ ~c.exclude.nil ->
                Return(c, w, ErrIncludeAndExcludeAreMutuallyExclusive)
          [] c.pc = "start" /\ (c.include.nil \/ c.exclude.nil) ->
                AwsListObjectsV2Page([c EXCEPT !.seen = {}, !.err = Nil], w)
          [] c.pc = "list" -> AwsListObjectsV2Page(c, w)
          [] c.pc = "page" -> Visited(AwsiterateObjects(c, c.buffer))

\* pc "start", "list", "page" of IterateObjects
AwsIterateObjects(c, w) ==
    LET Visited(r) ==
            IF r.err = Nil /\ c.more
            THEN Goto([r.c EXCEPT !.err = r.err], w, "list")
            ELSE Return([r.c EXCEPT !.err = r.err], w, r.err)
    IN  CASE c.pc = "start" /\ ~c.include.nil /\ ~c.exclude.nil ->
                Return(c, w, ErrIncludeAndExcludeAreMutuallyExclusive)
          [] c.pc = "start" /\ (c.include.nil \/ c.exclude.nil) ->
                AwsListObjectsV2Page([c EXCEPT !.seen = {}, !.err = Nil], w)
          [] c.pc = "list" -> AwsListObjectsV2Page(c, w)
          [] c.pc = "page" -> Visited(AwsiterateObjects(c, c.buffer))

\* the call up to and including its next request
AwsStep(c, w) ==
    CASE c.op = "GetObject" -> AwsGetObjectCall(c, w)
      [] c.op = "PutObject" -> AwsPutObjectCall(c, w)
      [] c.op = "AppendToObject" -> AwsAppendToObject(c, w)
      [] c.op = "DeleteObjects" -> AwsDeleteObjects(c, w)
      [] c.op = "DeleteDirectory" -> AwsDeleteDirectory(c, w)
      [] c.op = "IterateObjects" -> AwsIterateObjects(c, w)
      [] c.op = "CreateMultipartUpload" -> AwsCreateMultipartUploadCall(c, w)
      [] c.op = "UploadPart" -> AwsUploadPartCall(c, w)
      [] c.op = "UploadPartCopy" -> AwsUploadPartCopyCall(c, w)
      [] c.op = "CompleteMultipartUpload" ->
            AwsCompleteMultipartUploadCall(c, w)
      [] c.op = "AbortMultipartUpload" -> AwsAbortMultipartUploadCall(c, w)

----------------------------------------------------------------------------
(* A call runs step by step until it returns *)

Step(c, w) == IF c.provider = "aws" THEN AwsStep(c, w) ELSE GcpStep(c, w)

RECURSIVE Run(_)
\* the call of s.c run to its return
Run(s) == IF Returned(s.c) THEN s ELSE Run(Step(s.c, s.w))

----------------------------------------------------------------------------
(* A client making one call after another *)

World == [objects |-> objects, uploads |-> uploads]

\* a call with the given arguments, about to begin
Begin(args) ==
    args @@ [NewCall EXCEPT !.provider = provider,
                            !.fresh = uuids, !.before = objects,
                            !.uploadsBefore = uploads, !.freshBefore = uuids,
                            !.stage = session.stage]

\* the whole call, from its first line to its return
Call(args) ==
    \E r \in {Run([c |-> Begin(args), w |-> World])} :
        /\ objects' = r.w.objects
        /\ uploads' = r.w.uploads
        /\ last' = r.c
        /\ uuids' = r.c.fresh

K == <<"k">>

Other == <<"other">>

Block(tag, n) == <<tag, n>>

\* a body of n blocks
Body(tag, n) == [i \in 1..n |-> Block(tag, i)]

NoSession == [id |-> "", key |-> K, parts |-> <<>>, stage |-> "none",
              dirty |-> FALSE, aborts |-> 0]

----------------------------------------------------------------------------
(* SpecMpu: one multipart session on K against the GCP client: the parts   *)
(* are uploaded one by one, then completed or aborted                       *)

InitMpu ==
    /\ provider = "gcp"
    /\ objects \in {[k \in {Other} |-> Body("other", 1)],
                    [k \in {Other, K} |-> Body(k[1], 1)]}
    /\ uploads = <<>>
    /\ session = NoSession
    /\ last = NewCall
    /\ calls = <<>>
    /\ uuids = 0

MpuCreate ==
    /\ session.stage = "none"
    /\ Call([op |-> "CreateMultipartUpload", key |-> K])
    /\ session' = [session EXCEPT !.id = last'.out, !.stage = "open"]
    /\ UNCHANGED <<provider, calls>>

MpuUploadPart ==
    /\ session.stage = "open"
    /\ Len(session.parts) < MaxParts
    /\ Call([op |-> "UploadPart", id |-> session.id, key |-> K,
             number |-> Len(session.parts) + 1,
             data |-> <<Block("part", Len(session.parts) + 1)>>])
    /\ session' = [session EXCEPT !.parts = Append(@, last'.out)]
    /\ UNCHANGED <<provider, calls>>

\* the failures the environment may inject into CompleteMultipartUpload
CompleteFaults ==
    {{}} \cup {{<<"compose", j>>} : j \in 1..3}
         \cup {{<<"delete", j>>} : j \in 1..2}
         \cup {{<<"compose", 2>>, <<"delete", 1>>}}

MpuComplete ==
    /\ session.stage = "open"
    /\ session.parts # <<>>
    /\ \E faults \in CompleteFaults, drain \in BOOLEAN :
          /\ faults = {} => drain
          /\ Call([op |-> "CompleteMultipartUpload", id |-> session.id,
                   key |-> K, parts |-> session.parts, faults |-> faults,
                   drain |-> drain])
    /\ session' = [session EXCEPT
                     !.stage = IF last'.ret = Nil THEN "completed"
                               ELSE "failed",
                     !.dirty = last'.logged # <<>>]
    /\ UNCHANGED <<provider, calls>>

MpuAbort ==
    /\ session.stage \in {"open", "failed", "completed", "aborted"}
    /\ session.aborts < MaxAborts
    /\ \E faults \in {{}, {<<"delete", 1>>}, {<<"list", 1>>}} :
          Call([op |-> "AbortMultipartUpload", id |-> session.id, key |-> K,
                faults |-> faults])
    /\ session' = [session EXCEPT
                     !.stage = IF last'.ret = Nil /\ @ # "completed"
                               THEN "aborted" ELSE @,
                     !.aborts = @ + 1]
    /\ UNCHANGED <<provider, calls>>

NextMpu == MpuCreate \/ MpuUploadPart \/ MpuComplete \/ MpuAbort

SpecMpu == InitMpu /\ [][NextMpu]_vars

----------------------------------------------------------------------------
(* Claims about a multipart session on the GCP client (SpecMpu) *)

IDs(parts) == [i \in DOMAIN parts |-> parts[i].ID]

\* a key the caller chose, as opposed to a part or an intermediate key
IsUserKey(k) == Len(k) = 1

\* C1: on GCP, CompleteMultipartUpload of more than MaxComposable parts, with
\* every compose and delete request succeeding, returns nil, leaves at the
\* destination key the concatenation of the parts in the given order, and
\* leaves no part and no intermediate object: the bucket holds what it held
\* before, less the parts, plus the destination key.
C1_CompleteConcatenates ==
    ( /\ last.op = "CompleteMultipartUpload"
      /\ Len(last.parts) > MaxComposable
      /\ last.faults = {} )
    => /\ last.ret = Nil
       /\ DOMAIN objects = (DOMAIN last.before \ Range(IDs(last.parts))) \cup {K}
       /\ objects[K] = Concat(last.before, IDs(last.parts))
       /\ \A k \in DOMAIN objects \ {K} : objects[k] = last.before[k]

\* a completion that folded MaxParts parts through two intermediate objects
C1_Witness ==
    /\ last.op = "CompleteMultipartUpload"
    /\ last.faults = {}
    /\ Len(last.parts) > 2 * MaxComposable - 1
    /\ Len(Issued(last, "compose")) = 3
    /\ last.ret = Nil
    /\ Len(objects[K]) = Len(last.parts)

\* C22: the GCP CompleteMultipartUpload returns nil exactly when none of
\* its compose requests failed, whatever became of its delete requests; a
\* failed deletion is logged, and the error returned is that of the failed
\* compose request
C22_CompleteFailsOnlyOnCompose ==
    last.op = "CompleteMultipartUpload"
    => LET failed == SelectSeq(Issued(last, "compose"),
                               LAMBDA r : r.err # "")
           undeleted == SelectSeq(Issued(last, "delete"),
                                  LAMBDA r : r.err \notin {"", "notfound"})
       IN  /\ last.ret = Nil <=> failed = <<>>
           /\ failed # <<>> => last.ret = GcpHandleError(failed[1].err)
           /\ undeleted # <<>> => last.logged # <<>>

\* every compose request of a completion of more than MaxComposable parts
\* has succeeded, the deletion of a part has failed and has been logged,
\* and the call has returned nil
C22_Witness ==
    /\ last.op = "CompleteMultipartUpload"
    /\ Len(last.parts) > MaxComposable
    /\ Len(Issued(last, "compose")) = 2
    /\ \E i \in DOMAIN last.log :
          last.log[i].req = "delete" /\ last.log[i].err = "internal"
    /\ last.logged # <<>>
    /\ last.ret = Nil
    /\ K \in DOMAIN objects

\* the same call once more, with every request succeeding
Repeated(c) ==
    Run([c |-> Begin([op |-> c.op, id |-> c.id, key |-> c.key,
                      parts |-> c.parts, drain |-> TRUE]),
         w |-> World])

\* C23: after a GCP CompleteMultipartUpload that returned an error, every
\* object the bucket held before the call, the parts and the destination
\* among them, is there with the content it had, and a destination that
\* was absent is absent; the only new objects are intermediate objects of
\* the call whose deletion failed.  The same call made again, with every
\* request succeeding, returns nil and leaves the concatenation of the
\* parts at the destination
C23_FailedCompleteKeepsParts ==
    (last.op = "CompleteMultipartUpload" /\ last.ret # Nil)
    => /\ \A k \in DOMAIN last.before :
             k \in DOMAIN objects /\ objects[k] = last.before[k]
       /\ \A k \in DOMAIN objects \ DOMAIN last.before :
             /\ k # last.key
             /\ \E i \in DOMAIN last.log :
                   last.log[i].req = "compose" /\ last.log[i].key = k
       /\ Repeated(last).c.ret = Nil
       /\ Repeated(last).w.objects[last.key]
             = Concat(last.before, IDs(last.parts))

\* the second compose request of a completion has failed: the call has
\* returned an error, its intermediate object is gone and its parts are
\* all there
C23_Witness ==
    /\ last.op = "CompleteMultipartUpload" /\ last.ret # Nil
    /\ Len(last.parts) > MaxComposable
    /\ Len(Issued(last, "compose")) = 2
    /\ Issued(last, "compose")[1].err = ""
    /\ objects = last.before
    /\ Range(IDs(last.parts)) \subseteq DOMAIN objects

\* C24 as claimed: between a compose request of CompleteMultipartUpload
\* that succeeded and the next compose request, a delete request has been
\* issued for each of its sources other than the destination
C24_SourcesDeletedBetweenMerges ==
    last.op = "CompleteMultipartUpload"
    => \A i, j \in DOMAIN last.log :
          (/\ i < j
           /\ last.log[i].req = "compose" /\ last.log[i].err = ""
           /\ last.log[j].req = "compose")
          => \A k \in Range(last.log[i].srcs) \ {last.key} :
                \E d \in i + 1..j - 1 :
                   last.log[d].req = "delete" /\ last.log[d].key = k

\* C24 as amended: CompleteMultipartUpload issues no delete request before
\* its last compose request; when all its requests succeed, every source of
\* every compose request other than the destination has been deleted by
\* the time it returns
C24_SourcesDeletedAfterMerges ==
    last.op = "CompleteMultipartUpload"
    => /\ \A i, j \in DOMAIN last.log :
             (last.log[i].req = "delete" /\ last.log[j].req = "compose")
             => j < i
       /\ (\A i \in DOMAIN last.log : last.log[i].err = "")
          => \A i \in DOMAIN last.log :
                last.log[i].req = "compose"
                => \A k \in Range(last.log[i].srcs) \ {last.key} :
                      /\ k \notin DOMAIN objects
                      /\ \E d \in DOMAIN last.log :
                            last.log[d].req = "delete" /\ last.log[d].key = k

\* a completion of MaxParts parts has issued its three compose requests
\* one after the other and has then deleted the two intermediate objects
\* and the parts
C24_Witness ==
    /\ last.op = "CompleteMultipartUpload" /\ last.ret = Nil
    /\ Len(last.parts) = MaxParts
    /\ \A i \in 1..3 : last.log[i].req = "compose" /\ last.log[i].err = ""
    /\ \A i \in 4..Len(last.log) :
          last.log[i].req = "delete" /\ last.log[i].err = ""
    /\ Len(last.log) = 3 + 2 + MaxParts
    /\ DOMAIN objects = (DOMAIN last.before \ Range(IDs(last.parts)))
                           \cup {last.key}

\* the compose requests of a call, in the order they were issued
ComposeRequests(log) ==
    LET IsCompose(e) == e.req = "compose" IN SelectSeq(log, IsCompose)

\* the sources that remain when the m-th compose request is issued, the
\* earlier ones having composed the first MaxComposable of theirs
RECURSIVE RemainingAt(_, _, _)
RemainingAt(ids, cs, m) ==
    IF m = 1
    THEN ids
    ELSE LET before == RemainingAt(ids, cs, m - 1)
         IN  <<cs[m - 1].key>> \o SubSeq(before, MaxComposable + 1, Len(before))

\* C25: every compose request of CompleteMultipartUpload has at most
\* MaxComposable sources; a request that targets the destination is the
\* last one, and every earlier request composes exactly the first
\* MaxComposable remaining sources into a key that is new to the bucket and
\* is the first source of the next request; when all succeed the last
\* request targets the destination
C25_ComposeRequestsBounded ==
    last.op = "CompleteMultipartUpload"
    => LET cs == ComposeRequests(last.log)
           ids == IDs(last.parts)
       IN  /\ Len(cs) >= 1
           /\ \A m \in DOMAIN cs :
                 LET remaining == RemainingAt(ids, cs, m)
                 IN  /\ Len(cs[m].srcs) <= MaxComposable
                     /\ cs[m].key = last.key => m = Len(cs)
                     /\ m < Len(cs)
                        => /\ Len(remaining) > MaxComposable
                           /\ cs[m].srcs = SubSeq(remaining, 1, MaxComposable)
                           /\ cs[m].key # last.key
                           /\ cs[m].key \notin DOMAIN last.before
                           /\ cs[m].key \notin Range(ids)
                           /\ \A n \in 1..m - 1 : cs[n].key # cs[m].key
                           /\ cs[m + 1].srcs[1] = cs[m].key
                     /\ m = Len(cs)
                        => cs[m].srcs =
                              SubSeq(remaining, 1,
                                     IF Len(remaining) < MaxComposable
                                     THEN Len(remaining) ELSE MaxComposable)
           /\ last.ret = Nil => cs[Len(cs)].key = last.key

\* a completion of MaxParts parts has composed twice into an intermediate
\* and then, from the second intermediate and the last parts, into the key
C25_Witness ==
    /\ last.op = "CompleteMultipartUpload" /\ last.ret = Nil
    /\ Len(last.parts) = MaxParts
    /\ LET cs == ComposeRequests(last.log)
       IN  /\ Len(cs) = 3
           /\ Len(cs[1].srcs) = MaxComposable
           /\ Len(cs[2].srcs) = MaxComposable
           /\ cs[2].srcs[1] = cs[1].key
           /\ cs[3].srcs[1] = cs[2].key
           /\ Len(cs[3].srcs) = MaxParts - 2 * (MaxComposable - 1)
           /\ cs[3].key = last.key

\* the compose requests the fold of n parts issues when all succeed
ComposeCount(n) ==
    IF n <= MaxComposable
    THEN 1
    ELSE 1 + ((n - MaxComposable) + (MaxComposable - 2)) \div (MaxComposable - 1)

\* the number of sources left when the m-th compose request is issued:
\* each earlier request has taken its sources and given one object back
RECURSIVE LeftAt(_, _, _)
LeftAt(n, cs, m) ==
    IF m = 1 THEN n ELSE LeftAt(n, cs, m - 1) - Len(cs[m - 1].srcs) + 1

\* C26: CompleteMultipartUpload of N parts returns; each compose request
\* but the last leaves MaxComposable - 1 sources fewer to the next; it never
\* issues more than ComposeCount(N) compose requests and, when all of them
\* succeed, exactly that many, one per level of the recursion: every level
\* but the last deferred the deletion of one intermediate
C26_FoldTerminates ==
    last.op = "CompleteMultipartUpload"
    => LET cs == ComposeRequests(last.log)
           ids == IDs(last.parts)
           Deferred == {d \in DOMAIN last.log :
                           /\ last.log[d].req = "delete"
                           /\ \E m \in DOMAIN cs :
                                 last.log[d].key = cs[m].key}
       IN  /\ \A m \in 1..Len(cs) - 1 :
                 /\ LeftAt(Len(ids), cs, m + 1)
                       = LeftAt(Len(ids), cs, m) - (MaxComposable - 1)
                 /\ LeftAt(Len(ids), cs, m + 1) >= 1
           /\ Len(cs) <= ComposeCount(Len(ids))
           /\ (\A m \in DOMAIN cs : cs[m].err = "")
              => /\ Len(cs) = ComposeCount(Len(ids))
                 /\ Cardinality(Deferred) = Len(cs) - 1

\* completions of MaxComposable, MaxComposable + 1 and MaxParts parts
\* have issued one, two and three compose requests
C26_Witness ==
    /\ last.op = "CompleteMultipartUpload" /\ last.ret = Nil
    /\ Len(last.parts) = MaxComposable + 1
    /\ Len(ComposeRequests(last.log)) = 2
    /\ ComposeCount(MaxComposable) = 1
    /\ ComposeCount(2 * MaxComposable - 1) = 2
    /\ ComposeCount(2 * MaxComposable) = 3

\* C6 as claimed: on GCP, AbortMultipartUpload at any stage of a session
\* (parts uploaded, a completion that failed, an earlier abort), with its own
\* requests succeeding, returns nil and leaves no intermediate object of the
\* session in the bucket.
C6_AbortLeavesNoIntermediate ==
    ( /\ last.op = "AbortMultipartUpload"
      /\ last.stage # "completed"
      /\ last.faults = {} )
    => /\ last.ret = Nil
       /\ \A k \in DOMAIN objects : IsUserKey(k)

\* C6 as amended: such an abort returns nil, leaves no object under the
\* session's prefix and changes no other object; the only objects of the
\* session it can leave are intermediates of an earlier completion whose own
\* cleanup failed to delete them; and an abort after an abort changes nothing.
C6_AbortRemovesSessionPrefix ==
    ( /\ last.op = "AbortMultipartUpload"
      /\ last.stage # "completed"
      /\ last.faults = {} )
    => /\ last.ret = Nil
       /\ Matching(objects, partPrefix(session.id, K)) = {}
       /\ \A k \in DOMAIN last.before \ Matching(last.before,
                                                  partPrefix(session.id, K)) :
             k \in DOMAIN objects /\ objects[k] = last.before[k]
       /\ ~session.dirty => \A k \in DOMAIN objects : IsUserKey(k)
       /\ last.stage = "aborted" => objects = last.before

\* an abort that removed the parts of a session whose completion had failed
C6_Witness ==
    /\ last.op = "AbortMultipartUpload"
    /\ last.stage = "failed"
    /\ last.faults = {}
    /\ last.ret = Nil
    /\ Len(Issued(last, "delete")) > MaxComposable
    /\ Matching(objects, partPrefix(session.id, K)) = {}


----------------------------------------------------------------------------
(* SpecAppend: a client of either provider appending to K and writing K,   *)
(* MaxCalls calls one after the other                                       *)

\* the sizes of K at the start; K is absent, empty, below MinUploadSize, at
\* it, or above it
OldSizes == {0, 1, MinUploadSize - 1, MinUploadSize, MinUploadSize + 1}

InitAppend ==
    /\ provider \in {"aws", "gcp"}
    /\ objects \in {[k \in {Other} |-> Body("other", 1)]}
                   \cup {[k \in {Other, K} |->
                            IF k = K THEN Body("old", n) ELSE Body("other", 1)] :
                         n \in OldSizes}
    /\ uploads = <<>>
    /\ session = NoSession
    /\ last = NewCall
    /\ calls = <<>>
    /\ uuids = 0

\* the requests of an append that the environment may fail, one at a time,
\* and the abort together with the request that leads to it
AppendFaults ==
    IF provider = "aws"
    THEN {{}} \cup {{<<kind, 1>>} :
                     kind \in {"HeadObject", "GetObject", "ReadBody",
                               "PutObject", "CreateMultipartUpload",
                               "UploadPartCopy", "UploadPart",
                               "CompleteMultipartUpload"}}
              \cup {{<<kind, 1>>, <<"AbortMultipartUpload", 1>>} :
                       kind \in {"UploadPartCopy", "UploadPart",
                                 "CompleteMultipartUpload"}}
    ELSE {{}} \cup {{<<kind, 1>>} :
                     kind \in {"attrs", "write", "compose", "delete"}}

\* the data of the next call: x for the first call, y for the second
Data(n) == Body(IF calls = <<>> THEN "x" ELSE "y", n)

AppendToObject ==
    /\ Len(calls) < MaxCalls
    /\ \E n \in 1..MaxData, faults \in AppendFaults :
          Call([op |-> "AppendToObject", key |-> K, data |-> Data(n),
                faults |-> faults])
    /\ calls' = Append(calls, last')
    /\ UNCHANGED <<provider, session>>

PutObject ==
    /\ Len(calls) < MaxCalls
    /\ \E n \in 0..MaxData,
          faults \in {{}, {<<IF provider = "aws" THEN "PutObject" ELSE "write",
                            1>>}} :
          Call([op |-> "PutObject", key |-> K, data |-> Data(n),
                faults |-> faults])
    /\ calls' = Append(calls, last')
    /\ UNCHANGED <<provider, session>>

NextAppend == AppendToObject \/ PutObject

SpecAppend == InitAppend /\ [][NextAppend]_vars

----------------------------------------------------------------------------
(* Claims about AppendToObject (SpecAppend) *)

\* the body of K in a bucket, empty if K is absent
BodyOf(objs, key) == IF key \in DOMAIN objs THEN objs[key] ELSE <<>>

\* C2: on both providers, two appends to K one after the other, with every
\* request succeeding, leave K with the old body followed by the data of the
\* first and then of the second append, whichever way each call appends
C2_AppendsConcatenate ==
    ( /\ Len(calls) = 2
      /\ \A i \in 1..2 : calls[i].op = "AppendToObject" /\ calls[i].faults = {} )
    => /\ calls[1].ret = Nil /\ calls[2].ret = Nil
       /\ calls[1].pc = "done" /\ calls[2].pc = "done"
       /\ K \in DOMAIN objects
       /\ objects[K] = BodyOf(calls[1].before, K) \o calls[1].data
                          \o calls[2].data
       /\ objects[Other] = calls[1].before[Other]

\* the two appends take different ways: on AWS the first downloads the
\* object and the second copies it within a multipart upload
C2_Witness ==
    /\ provider = "aws"
    /\ Len(calls) = 2
    /\ \A i \in 1..2 : calls[i].op = "AppendToObject" /\ calls[i].faults = {}
    /\ Len(Issued(calls[1], "GetObject")) = 1
    /\ Len(Issued(calls[2], "UploadPartCopy")) = 1
    /\ objects[K] = calls[1].before[K] \o calls[1].data \o calls[2].data
    /\ Len(objects[K]) > MinUploadSize

\* PutObject with the arguments and the environment of the call c, run from
\* the world in which c began
AsPutObject(c) ==
    Run([c |-> [NewCall EXCEPT !.op = "PutObject", !.provider = c.provider,
                               !.key = c.key, !.data = c.data,
                               !.faults = c.faults, !.fresh = c.freshBefore],
         w |-> [objects |-> c.before, uploads |-> c.uploadsBefore]])

\* the key is absent when the call begins or, on GCP, holds an empty object,
\* and the lookup of its attributes is answered
AppendCreates(c) ==
    /\ c.op = "AppendToObject"
    /\ \/ c.key \notin DOMAIN c.before
       \/ c.provider = "gcp" /\ c.before[c.key] = <<>>
    /\ c.log[1].err \in {"", "notfound", "NotFound"}

\* C3: AppendToObject on a key that is absent (on GCP also one that is
\* empty) does what PutObject does with the same data: after the lookup of
\* the attributes it issues the same single write, returns the same error,
\* leaves the same bucket, and creates no session and no intermediate
C3_AppendToAbsentIsPut ==
    AppendCreates(last)
    => \E put \in {AsPutObject(last)} :
          /\ last.pc = "done"
          /\ last.ret = put.c.ret
          /\ Tail(last.log) = put.c.log
          /\ Len(put.c.log) = 1
          /\ objects = put.w.objects
          /\ uploads = put.w.uploads /\ uploads = last.uploadsBefore
          /\ last.fresh = last.freshBefore
          /\ DOMAIN objects \subseteq DOMAIN last.before \cup {last.key}

C3_Witness ==
    /\ AppendCreates(last)
    /\ last.key \notin DOMAIN last.before
    /\ last.faults = {}
    /\ last.ret = Nil
    /\ objects[last.key] = last.data
    /\ Len(last.log) = 2

----------------------------------------------------------------------------
(* SpecDelete: a client of either provider deleting keys, again and again,  *)
(* or a directory                                                           *)

Da == <<"d", "a">>

Db == <<"d", "b">>

Dc == <<"d", "c">>

InitDelete ==
    /\ provider \in {"aws", "gcp"}
    /\ \E present \in SUBSET {Da, Db, Dc} :
          objects = [k \in present \cup {Other} |-> Body(k[Len(k)], 1)]
    /\ uploads = <<>>
    /\ session = NoSession
    /\ last = NewCall
    /\ calls = <<>>
    /\ uuids = 0

\* the key lists a caller hands to DeleteObjects
KeyLists ==
    {<<>>, <<Da, Db, Dc>>, <<Dc, Da, Da>>}
    \cup {<<k>> : k \in {Da, Db, Dc}}
    \cup {<<k1, k2>> : k1, k2 \in {Da, Db, Dc}}

\* what the environment does to the delete requests of a call: the n-th
\* request fails, or the service refuses to delete a key; on GCP the pool
\* may or may not run the deletes queued behind a failure
DeleteOracles ==
    {[faults |-> {}, denied |-> {}, drain |-> FALSE]}
    \cup {[faults |-> {<<IF provider = "aws" THEN "DeleteObjects" ELSE "delete",
                         n>>},
           denied |-> {}, drain |-> d] :
          n \in 1..2, d \in IF provider = "aws" THEN {FALSE} ELSE BOOLEAN}
    \cup {[faults |-> {}, denied |-> {k}, drain |-> d] :
          k \in {Da, Db}, d \in IF provider = "aws" THEN {FALSE} ELSE BOOLEAN}

\* the same for the listing requests of DeleteDirectory
ListOracles ==
    {[faults |-> {<<IF provider = "aws" THEN "ListObjectsV2" ELSE "list", n>>},
      denied |-> {}, drain |-> FALSE] : n \in 1..2}

DeleteObjects ==
    /\ calls = <<>>
    /\ \E keys \in KeyLists, oracle \in DeleteOracles :
          Call([op |-> "DeleteObjects", keys |-> keys] @@ oracle)
    /\ calls' = Append(calls, last')
    /\ UNCHANGED <<provider, session>>

\* the caller repeats its DeleteObjects with the same keys
DeleteObjectsAgain ==
    /\ calls # <<>> /\ Len(calls) < MaxCalls
    /\ last.op = "DeleteObjects"
    /\ \E oracle \in DeleteOracles :
          Call([op |-> "DeleteObjects", keys |-> last.keys] @@ oracle)
    /\ calls' = Append(calls, last')
    /\ UNCHANGED <<provider, session>>

DeleteDirectory ==
    /\ calls = <<>>
    /\ \E prefix \in {<<>>, <<"d">>, Da},
          oracle \in DeleteOracles \cup ListOracles :
          Call([op |-> "DeleteDirectory", prefix |-> prefix] @@ oracle)
    /\ calls' = Append(calls, last')
    /\ UNCHANGED <<provider, session>>

NextDelete == DeleteObjects \/ DeleteObjectsAgain \/ DeleteDirectory

SpecDelete == InitDelete /\ [][NextDelete]_vars

----------------------------------------------------------------------------
(* Claims about DeleteObjects and DeleteDirectory (SpecDelete) *)

\* a delete request of the call failed with something other than a missing
\* key: the request itself, or the deletion of one of its keys
DeleteFailed(c) ==
    \E i \in DOMAIN c.log :
        \/ c.log[i].req = "delete" /\ c.log[i].err \notin {"", "notfound"}
        \/ /\ c.log[i].req = "DeleteObjects"
           /\ \/ c.log[i].err # ""
              \/ Range(c.log[i].keys) \cap c.log[i].denied # {}

\* C4: on both providers DeleteDirectory returns nil only if no object under
\* the prefix is left, and it returns an error whenever the deletion of a
\* listed object failed with something other than not-found
C4_DeleteDirectoryReportsFailure ==
    last.op = "DeleteDirectory"
    => /\ last.ret = Nil => Matching(objects, last.prefix) = {}
       /\ DeleteFailed(last) => last.ret # Nil

\* C4 on the GCP client alone
C4_GcpDeleteDirectoryReportsFailure ==
    (last.op = "DeleteDirectory" /\ provider = "gcp")
    => /\ last.ret = Nil => Matching(objects, last.prefix) = {}
       /\ DeleteFailed(last) => last.ret # Nil

\* no request of the call failed with something other than a missing key
OnlyNotFound(c) ==
    /\ c.faults = {}
    /\ c.denied \cap Range(c.keys) = {}

\* C5: on both providers DeleteObjects, with keys that exist and keys that
\* are absent and no failure other than not-found, returns nil, leaves none
\* of the keys and changes no other object; called again with the same keys
\* it returns nil again
C5_DeleteObjectsIgnoresAbsent ==
    /\ (last.op = "DeleteObjects" /\ OnlyNotFound(last))
       => /\ last.ret = Nil
          /\ DOMAIN objects = DOMAIN last.before \ Range(last.keys)
          /\ \A k \in DOMAIN objects : objects[k] = last.before[k]
    /\ ( /\ Len(calls) = 2
         /\ \A i \in 1..2 : calls[i].op = "DeleteObjects" /\ OnlyNotFound(calls[i])
         /\ calls[1].keys = calls[2].keys )
       => /\ calls[2].ret = Nil
          /\ objects = calls[2].before

\* the second of two calls with the same keys, of which the first found one
\* key present and another absent
C5_Witness ==
    /\ Len(calls) = 2
    /\ \A i \in 1..2 : calls[i].op = "DeleteObjects" /\ OnlyNotFound(calls[i])
    /\ calls[1].keys = calls[2].keys
    /\ \E k1, k2 \in Range(calls[1].keys) :
          k1 \in DOMAIN calls[1].before /\ k2 \notin DOMAIN calls[1].before
    /\ calls[2].ret = Nil
    /\ Len(calls[2].log) > 0
    /\ DOMAIN objects \cap Range(last.keys) = {}

----------------------------------------------------------------------------
(* SpecIterate: a client of either provider iterating over the bucket      *)

NoFilter == NewCall.include

Filter(pats) == [nil |-> FALSE, pats |-> pats]

\* the filters a caller passes: none, an empty list, one or two patterns
Filters ==
    {NoFilter, Filter(<<>>), Filter(<<{Da, Db}>>), Filter(<<{Dc}, {Other}>>)}

InitIterate ==
    /\ provider \in {"aws", "gcp"}
    /\ \E present \in SUBSET {Da, Db, Dc} :
          objects = [k \in present \cup {Other} |-> Body(k[Len(k)], 1)]
    /\ uploads = <<>>
    /\ session = NoSession
    /\ last = NewCall
    /\ calls = <<>>
    /\ uuids = 0

IterateObjects ==
    /\ calls = <<>>
    /\ \E prefix \in {<<>>, <<"d">>}, include \in Filters, exclude \in Filters,
          visitErrAt \in 0..Cardinality(DOMAIN objects),
          faults \in {{}, {<<IF provider = "aws" THEN "ListObjectsV2"
                             ELSE "list", 2>>}} :
          Call([op |-> "IterateObjects", prefix |-> prefix,
                include |-> include, exclude |-> exclude,
                visitErrAt |-> visitErrAt, faults |-> faults])
    /\ calls' = Append(calls, last')
    /\ UNCHANGED <<provider, session>>

NextIterate == IterateObjects

SpecIterate == InitIterate /\ [][NextIterate]_vars

----------------------------------------------------------------------------
(* Claims about IterateObjects (SpecIterate) *)

\* C8: on both providers IterateObjects with include and exclude both
\* non-empty returns ErrIncludeAndExcludeAreMutuallyExclusive, issues no
\* listing request and never invokes the visit function
C8_IncludeAndExcludeRejected ==
    ( /\ last.op = "IterateObjects"
      /\ last.include.pats # <<>> /\ last.exclude.pats # <<>> )
    => /\ last.ret = ErrIncludeAndExcludeAreMutuallyExclusive
       /\ last.log = <<>>
       /\ last.visited = <<>>

C8_Witness ==
    /\ last.op = "IterateObjects" /\ last.pc = "done"
    /\ last.include.pats # <<>> /\ last.exclude.pats # <<>>
    /\ Matching(objects, last.prefix) # {}
    /\ last.ret = ErrIncludeAndExcludeAreMutuallyExclusive

\* the visit function returned its error during the call
VisitFailed(c) ==
    c.op = "IterateObjects" /\ c.visitErrAt > 0
        /\ Len(c.visited) >= c.visitErrAt

\* C9: on both providers, when the visit function returns an error the
\* iteration stops at once: no later object is visited, no further page is
\* requested, and IterateObjects returns that very error
C9_VisitErrorStopsIteration ==
    VisitFailed(last)
    => /\ Len(last.visited) = last.visitErrAt
       /\ Len(last.log) = last.visited[last.visitErrAt].requests
       /\ last.ret = ErrVisit

\* the error comes in the first page while objects are left for a second
C9_Witness ==
    /\ VisitFailed(last)
    /\ last.ret = ErrVisit
    /\ Len(last.log) = 1
    /\ Cardinality(Matching(objects, last.prefix)) > ListPageSize
    /\ last.include.nil /\ last.exclude.nil

----------------------------------------------------------------------------
(* SpecGet: a client of either provider reading K, whole or a byte range   *)

\* the largest size of K and the largest end of a byte range
MaxSize == 3

InitGet ==
    /\ provider \in {"aws", "gcp"}
    /\ objects \in {[k \in {Other} |-> Body("other", 1)]}
                   \cup {[k \in {Other, K} |->
                            IF k = K THEN Body("old", n) ELSE Body("other", 1)] :
                         n \in 0..MaxSize}
    /\ uploads = <<>>
    /\ session = NoSession
    /\ last = NewCall
    /\ calls = <<>>
    /\ uuids = 0

GetObject ==
    /\ calls = <<>>
    /\ \E br \in {NewCall.br}
                 \cup {ByteRange(start, end) :
                          start \in -1..MaxSize, end \in -1..MaxSize + 1},
          faults \in {{}, {<<IF provider = "aws" THEN "GetObject" ELSE "read",
                            1>>}} :
          Call([op |-> "GetObject", key |-> K, br |-> br, faults |-> faults])
    /\ calls' = Append(calls, last')
    /\ UNCHANGED <<provider, session>>

NextGet == GetObject

SpecGet == InitGet /\ [][NextGet]_vars

----------------------------------------------------------------------------
(* Claims about GetObject (SpecGet) *)

\* the single read request of the call asks for the blocks first..last of
\* the key, or for the whole body
ReadsRange(c, first, last1) ==
    /\ Len(c.log) = 1
    /\ c.log[1].key = c.key
    /\ IF c.provider = "aws"
       THEN /\ c.log[1].req = "GetObject"
            /\ c.log[1].range = <<"bytes=", first, "-", last1>>
       ELSE /\ c.log[1].req = "read"
            /\ c.log[1].offset = first
            /\ c.log[1].length = last1 - first + 1

ReadsAll(c) ==
    /\ Len(c.log) = 1
    /\ c.log[1].key = c.key
    /\ IF c.provider = "aws"
       THEN c.log[1].req = "GetObject" /\ c.log[1].range = <<>>
       ELSE c.log[1].req = "read" /\ c.log[1].offset = 0
               /\ c.log[1].length = -1

\* the blocks first..last of a body, as far as the body goes
Blocks(body, first, last1) ==
    [i \in 1..((IF last1 + 1 < Len(body) THEN last1 + 1 ELSE Len(body)) - first)
        |-> body[first + i]]

----------------------------------------------------------------------------
(* SpecConc: two calls of the GCP client on the keys K and J, each with a  *)
(* session of its own, run concurrently: a step of the specification is    *)
(* the code of one call up to and including its next storage request.      *)
(* Each call draws its uuids from a sequence of its own, so that the names *)
(* it generates do not depend on the schedule.                              *)

J == <<"j">>

DestinationOf(i) == IF i = 1 THEN K ELSE J

SessionOf(i) == IF i = 1 THEN "s1" ELSE "s2"

\* the first of the uuids the i-th caller draws
UuidsOf(i) == i * 1000

\* the numbers of parts a caller has uploaded when the calls begin
PreparedParts == {1, MaxComposable + 1}

InitConc ==
    /\ provider = "gcp"
    /\ uploads = <<>>
    /\ uuids = 0
    /\ calls = <<>>
    /\ last = NewCall
    /\ session = [phase |-> "setup", parts |-> <<<<>>, <<>>>>,
                  fresh |-> <<UuidsOf(1), UuidsOf(2)>>,
                  interleaved |-> FALSE]
    /\ \E present \in {{}, {K, J}} :
          objects = [k \in present \cup {Other} |-> Body(k[1], 1)]

\* before the calls begin the i-th caller uploads the parts of its session,
\* one UploadPart after the other, the first caller first
Upload(i) ==
    /\ session.phase = "setup"
    /\ Len(session.parts[i]) < MaxComposable + 1
    /\ IF i = 1 THEN session.parts[2] = <<>>
       ELSE Len(session.parts[1]) \in PreparedParts
    /\ \E r \in {Run([c |-> [NewCall EXCEPT
                               !.op = "UploadPart", !.id = SessionOf(i),
                               !.key = DestinationOf(i),
                               !.number = Len(session.parts[i]) + 1,
                               !.data = <<Block(SessionOf(i),
                                                Len(session.parts[i]) + 1)>>,
                               !.fresh = session.fresh[i]],
                      w |-> World])} :
          /\ objects' = r.w.objects
          /\ session' = [session EXCEPT !.parts[i] = Append(@, r.c.out),
                                        !.fresh[i] = r.c.fresh]
    /\ UNCHANGED <<provider, uploads, last, calls, uuids>>

Upload1 == Upload(1)

Upload2 == Upload(2)

\* the calls the i-th caller may make on its key and session
ConcurrentCalls(i) ==
    LET Of(args) ==
            args @@ [NewCall EXCEPT !.id = SessionOf(i),
                                    !.key = DestinationOf(i),
                                    !.fresh = session.fresh[i]]
    IN  { Of([op |-> "AppendToObject", data |-> Body("x", 1)]),
          Of([op |-> "UploadPart", number |-> Len(session.parts[i]) + 1,
              data |-> Body("y", 1)]),
          Of([op |-> "CompleteMultipartUpload", parts |-> session.parts[i]]),
          Of([op |-> "AbortMultipartUpload"]) }
        \cup { Of([op |-> "CompleteMultipartUpload",
                   parts |-> session.parts[i], faults |-> {<<"compose", n>>}]) :
               n \in IF Len(session.parts[i]) > MaxComposable THEN {2}
                     ELSE {} }

\* both callers begin a call
Start ==
    /\ session.phase = "setup"
    /\ \A i \in 1..2 : Len(session.parts[i]) \in PreparedParts
    /\ \E c1 \in ConcurrentCalls(1), c2 \in ConcurrentCalls(2) :
          /\ calls' = <<c1, c2>>
          /\ last' = [calls |-> <<c1, c2>>, objects |-> objects]
    /\ session' = [session EXCEPT !.phase = "running"]
    /\ UNCHANGED <<provider, objects, uploads, uuids>>

\* the call has issued a request and has not returned
InProgress(c) == c.log # <<>> /\ ~Returned(c)

\* the i-th call runs up to and including its next storage request; the
\* schedule is interleaved once a call steps while the other is in progress
Proc(i) ==
    /\ session.phase = "running"
    /\ ~Returned(calls[i])
    /\ \E r \in {Step(calls[i], World)} :
          /\ calls' = [calls EXCEPT ![i] = r.c]
          /\ objects' = r.w.objects
          /\ uploads' = r.w.uploads
    /\ session' = [session EXCEPT
                      !.interleaved = @ \/ InProgress(calls[3 - i])]
    /\ UNCHANGED <<provider, last, uuids>>

Proc1 == Proc(1)

Proc2 == Proc(2)

NextConc == Upload1 \/ Upload2 \/ Start \/ Proc1 \/ Proc2

SpecConc == InitConc /\ [][NextConc]_vars

----------------------------------------------------------------------------
(* Claims about concurrent calls (SpecConc) *)

\* the two calls run one after the other, the i-th first
OneAfterTheOther(i) ==
    LET Second(first) ==
            [first |-> first,
             second |-> Run([c |-> last.calls[3 - i],
                             w |-> first.w])]
    IN  Second(Run([c |-> last.calls[i],
                    w |-> [objects |-> last.objects, uploads |-> <<>>]]))

\* the keys that belong to the call c: its destination, and what is named
\* after the destination as parts and intermediates are
Owns(c, k) == k = c.key \/ StartsWith(k, c.key \o <<"-mpu-">>)

\* the step changed the object at k: wrote it, overwrote it or deleted it
Changed(k) ==
    \/ (k \in DOMAIN objects) # (k \in DOMAIN objects')
    \/ k \in DOMAIN objects /\ k \in DOMAIN objects' /\ objects[k] # objects'[k]

\* C7: two GCP calls running concurrently on distinct keys with distinct
\* sessions end, under every interleaving of their requests, with the bucket
\* and the results that running them one after the other gives, in either
\* order; and no step of a call writes or deletes an object of the other
C7_ConcurrentCallsIndependent ==
    /\ []( (calls # <<>> /\ Returned(calls[1]) /\ Returned(calls[2]))
           => \A i \in 1..2 :
                 \E seq \in {OneAfterTheOther(i)} :
                    /\ objects = seq.second.w.objects
                    /\ calls[i].ret = seq.first.c.ret
                    /\ calls[3 - i].ret = seq.second.c.ret )
    /\ [][ calls # <<>>
            => \A k \in DOMAIN objects \cup DOMAIN objects' :
                  Changed(k) => \E i \in 1..2 : calls'[i] # calls[i]
                                                   /\ Owns(calls[i], k) ]_vars

\* both calls have returned after an interleaved schedule; one completed a session of more than MaxComposable parts
\* while the other appended to an object that existed
C7_Witness ==
    /\ calls # <<>> /\ Returned(calls[1]) /\ Returned(calls[2])
    /\ session.interleaved
    /\ calls[1].op = "CompleteMultipartUpload"
    /\ Len(calls[1].parts) > MaxComposable
    /\ calls[1].ret = Nil
    /\ calls[2].op = "AppendToObject"
    /\ Len(Issued(calls[2], "compose")) = 1
    /\ Len(objects[K]) = MaxComposable + 1
    /\ Len(objects[J]) = 2

----------------------------------------------------------------------------
(* SpecCopy: a GCP client copying the object Other, whole or a byte range   *)
(* of it, into a part of the session on K                                   *)

InitCopy ==
    /\ provider = "gcp"
    /\ objects \in {[k \in {K} |-> Body("old", 1)]}
                   \cup {[k \in {Other, K} |->
                            IF k = K THEN Body("old", 1) ELSE Body("other", n)] :
                         n \in 0..MaxSize}
    /\ uploads = <<>>
    /\ session = [NoSession EXCEPT !.id = "s", !.stage = "open"]
    /\ last = NewCall
    /\ calls = <<>>
    /\ uuids = 0

UploadPartCopy ==
    /\ calls = <<>>
    /\ \E br \in {NewCall.br}
                 \cup {ByteRange(start, end) :
                          start \in -1..MaxSize, end \in -1..MaxSize + 1},
          faults \in {{}, {<<"attrs", 1>>}, {<<"copy", 1>>}} :
          Call([op |-> "UploadPartCopy", id |-> session.id, key |-> K,
                src |-> Other, number |-> 1, br |-> br, faults |-> faults])
    /\ calls' = Append(calls, last')
    /\ UNCHANGED <<provider, session>>

NextCopy == UploadPartCopy

SpecCopy == InitCopy /\ [][NextCopy]_vars

----------------------------------------------------------------------------
(* Claims about the GCP UploadPartCopy (SpecCopy) *)

\* the range of the call is no range or exactly the whole source
WholeSource(c) ==
    c.br.nil \/ (c.br.Start = 0 /\ c.br.End = Len(c.before[c.src]) - 1)

\* the call was given a valid range (or none) for a source that exists, and
\* its attributes request was answered
CopyDecided(c) ==
    /\ c.op = "UploadPartCopy"
    /\ c.src \in DOMAIN c.before
    /\ Valid(c.br, FALSE) = Nil
    /\ Len(c.log) >= 1 /\ c.log[1].err = ""

----------------------------------------------------------------------------
(* SpecErrors: a client of either provider making one call of any of its    *)
(* operations while the provider fails one of the requests                  *)

\* the requests of each provider that the environment may fail
RequestKinds ==
    IF provider = "aws"
    THEN {"HeadObject", "GetObject", "PutObject", "CreateMultipartUpload",
          "UploadPartCopy", "UploadPart", "CompleteMultipartUpload",
          "AbortMultipartUpload", "DeleteObjects", "ListObjectsV2"}
    ELSE {"attrs", "read", "write", "copy", "compose", "delete", "list"}

Operations ==
    {"GetObject", "PutObject", "AppendToObject", "DeleteObjects",
     "DeleteDirectory", "IterateObjects", "CreateMultipartUpload",
     "UploadPart", "UploadPartCopy", "CompleteMultipartUpload",
     "AbortMultipartUpload"}

InitErrors ==
    /\ provider \in {"aws", "gcp"}
    /\ objects \in {[k \in {Other} |-> Body("other", 1)]}
                   \cup {[k \in {Other, K} |->
                            IF k = K THEN Body("old", n) ELSE Body("other", 1)] :
                         n \in {1, MinUploadSize}}
    /\ uploads = <<>>
    /\ session = [NoSession EXCEPT !.id = "s", !.stage = "open"]
    /\ last = NewCall
    /\ calls = <<>>
    /\ uuids = 0

FailingCall ==
    /\ calls = <<>>
    /\ \E op \in Operations, kind \in RequestKinds :
          Call([op |-> op, key |-> K, id |-> session.id, src |-> Other,
                data |-> Body("x", 1), number |-> 1,
                parts |-> <<Part(Other, 1, 1)>>, keys |-> <<K, Other>>,
                br |-> IF op = "UploadPartCopy" THEN ByteRange(0, 0)
                       ELSE NewCall.br,
                faults |-> {<<kind, 1>>}])
    /\ calls' = Append(calls, last')
    /\ UNCHANGED <<provider, session>>

NextErrors == FailingCall

SpecErrors == InitErrors /\ [][NextErrors]_vars

----------------------------------------------------------------------------
(* Claims about the errors the operations return (SpecErrors) *)

\* the call returned an error after a request of its own had failed
FailedOnRequest(c) ==
    /\ c.pc = "done" /\ c.ret # Nil
    /\ \E i \in DOMAIN c.log : c.log[i].err # ""

\* the root of the error is one of the normalised errors: not found,
\* unsupported operation, or the provider error that carries the cause
Normalized(err) ==
    \/ err[Len(err)] \in {"NotFoundError", "UnsupportedOperationError"}
    \/ Len(err) >= 2 /\ err[Len(err) - 1] = "ProviderError"

\* C12: every error an operation of either provider returns after one of its
\* requests has failed is a normalised error, never the provider's own
C12_ErrorsNormalized ==
    FailedOnRequest(last) => Normalized(last.ret)

\* C12 holds of every operation but the AWS CompleteMultipartUpload and
\* AbortMultipartUpload, the AWS AppendToObject when one of these two fails
\* inside it, and the GCP listing (IterateObjects and the operations built
\* on it)
C12_OtherOperationsNormalize ==
    (/\ FailedOnRequest(last)
     /\ ~(/\ last.provider = "aws"
          /\ last.log[Len(last.log)].req
                \in {"CompleteMultipartUpload", "AbortMultipartUpload"})
     /\ ~(last.provider = "gcp" /\ last.log[Len(last.log)].req = "list"))
    => Normalized(last.ret)

----------------------------------------------------------------------------
(* The retryer (package retry).  In SpecRetry the variable `session` holds  *)
(* one run of Retryer.DoWithContext: the options, the wrapped context (its  *)
(* attempt, whether the caller has cancelled it), the position of the run,  *)
(* the calls of fn made so far and what the run returned.                   *)

\* the largest MaxRetries of the options
MaxAttempts == 3

NoError == [type |-> "nil"]

\* the error fn returns at the given attempt
OperationError(attempt) == [type |-> "OperationError", attempt |-> attempt]

ContextCanceled == [type |-> "context canceled"]

RetriesExhaustedError(attempts, err) ==
    [type |-> "RetriesExhaustedError", attempts |-> attempts, err |-> err]

RetriesAbortedError(attempts, err) ==
    [type |-> "RetriesAbortedError", attempts |-> attempts, err |-> err]

\* the payload fn returns at the given attempt
Payload(attempt) == [payload |-> attempt]

NoPayload == [payload |-> 0]

\* a retryer with the given options about to run DoWithContext: the wrapped
\* context starts at attempt 1
NewRetryer(options) ==
    [ options |-> options, pc |-> "do", attempt |-> 1,
      payload |-> NoPayload, err |-> NoError,
      cancelled |-> FALSE, cancelledAt |-> [pc |-> "", calls |-> 0],
      fired |-> FALSE, sleeps |-> 0,
      fns |-> <<>>, cleaned |-> <<>>, logs |-> <<>>,
      ret |-> [payload |-> NoPayload, err |-> NoError] ]

\* DoWithContext returns
Returns(r, payload, err) ==
    [r EXCEPT !.pc = "returned", !.ret = [payload |-> payload, err |-> err]]

\* retry ignoring the ShouldRetry of the options
retryOnErrorOnly(r, payload, err) == err # NoError

\* retry: whether fn is to be executed again
retry(r, payload, err) ==
    IF r.options.ShouldRetry # "nil"
    THEN r.options.ShouldRetry = "always"
    ELSE err # NoError

\* do calling fn whether or not the context is cancelled
doNoContextTest(r, ok) ==
    LET payload == Payload(r.attempt)
        err == IF ok THEN NoError ELSE OperationError(r.attempt)
        called == [r EXCEPT !.fns = Append(@, [attempt |-> r.attempt,
                                                payload |-> payload,
                                                err |-> err]),
                            !.payload = payload, !.err = err]
    IN  IF ~retry(r, payload, err) THEN Returns(called, payload, err)
        ELSE [called EXCEPT
                !.cleaned = IF r.options.Cleanup
                               /\ r.attempt < r.options.MaxRetries
                            THEN Append(@, payload) ELSE @,
                !.pc = "sleep", !.fired = FALSE, !.sleeps = @ + 1]

\* do cleaning up the payload of the final attempt as well
doCleansUpFinalAttempt(r, ok) ==
    LET payload == Payload(r.attempt)
        err == IF ok THEN NoError ELSE OperationError(r.attempt)
        called == [r EXCEPT !.fns = Append(@, [attempt |-> r.attempt,
                                                payload |-> payload,
                                                err |-> err]),
                            !.payload = payload, !.err = err]
    IN  IF r.cancelled
        THEN Returns(r, NoPayload,
                     RetriesAbortedError(r.attempt - 1, ContextCanceled))
        ELSE IF ~retry(r, payload, err) THEN Returns(called, payload, err)
        ELSE [called EXCEPT
                !.cleaned = IF r.options.Cleanup
                               /\ r.attempt <= r.options.MaxRetries
                            THEN Append(@, payload) ELSE @,
                !.pc = "sleep", !.fired = FALSE, !.sleeps = @ + 1]

\* do, up to the select of sleep: the context is looked at, fn is called
\* (ok: whether it succeeds), the payload is cleaned up and the timer of
\* the backoff is started
do(r, ok) ==
    LET payload == Payload(r.attempt)
        err == IF ok THEN NoError ELSE OperationError(r.attempt)
        called == [r EXCEPT !.fns = Append(@, [attempt |-> r.attempt,
                                                payload |-> payload,
                                                err |-> err]),
                            !.payload = payload, !.err = err]
    IN  IF r.cancelled
        THEN Returns(r, NoPayload,
                     RetriesAbortedError(r.attempt - 1, ContextCanceled))
        ELSE IF ~retry(r, payload, err) THEN Returns(called, payload, err)
        ELSE [called EXCEPT
                !.cleaned = IF r.options.Cleanup
                               /\ r.attempt < r.options.MaxRetries
                            THEN Append(@, payload) ELSE @,
                !.pc = "sleep", !.fired = FALSE, !.sleeps = @ + 1]

\* the cases of the select of sleep that are ready
Ready(r) ==
    (IF r.fired THEN {"timer"} ELSE {})
    \cup (IF r.cancelled THEN {"done"} ELSE {})

\* the loop of DoWithContext giving up one attempt early
sleepOneAttemptShort(r, case) ==
    IF case = "done"
    THEN Returns(r, NoPayload, RetriesAbortedError(r.attempt, ContextCanceled))
    ELSE IF r.attempt + 1 < r.options.MaxRetries
    THEN [r EXCEPT !.pc = "do", !.attempt = @ + 1]
    ELSE Returns([r EXCEPT !.attempt = @ + 1], r.payload,
                 RetriesExhaustedError(r.options.MaxRetries, r.err))

\* the select of sleep takes the given case; on the timer do returns, the
\* failure is logged and the loop of DoWithContext goes on to the next
\* attempt or gives up
sleep(r, case) ==
    LET logged == [r EXCEPT
                     !.logs = IF r.options.Log
                                 /\ r.attempt # r.options.MaxRetries
                              THEN Append(@, [attempt |-> r.attempt,
                                              payload |-> r.payload,
                                              err |-> r.err])
                              ELSE @,
                     !.attempt = @ + 1]
    IN  IF case = "done"
        THEN Returns(r, NoPayload,
                     RetriesAbortedError(r.attempt, ContextCanceled))
        ELSE IF r.attempt + 1 <= r.options.MaxRetries
        THEN [logged EXCEPT !.pc = "do"]
        ELSE Returns(logged, r.payload,
                     RetriesExhaustedError(r.options.MaxRetries, r.err))

----------------------------------------------------------------------------
(* SpecRetry: one run of DoWithContext while the caller may cancel the      *)
(* context and the timer of the backoff may fire                            *)

InitRetry ==
    /\ provider = "none"
    /\ objects = <<>>
    /\ uploads = <<>>
    /\ session \in {NewRetryer(o) :
                      o \in [MaxRetries : 1..MaxAttempts,
                             ShouldRetry : {"nil", "never", "always"},
                             Cleanup : BOOLEAN, Log : BOOLEAN]}
    /\ last = NewCall
    /\ calls = <<>>
    /\ uuids = 0

\* the next attempt
Attempt ==
    /\ session.pc = "do"
    /\ \E ok \in BOOLEAN : session' = do(session, ok)
    /\ UNCHANGED <<provider, objects, uploads, last, calls, uuids>>

\* the select of sleep returns
Select ==
    /\ session.pc = "sleep"
    /\ \E case \in Ready(session) : session' = sleep(session, case)
    /\ UNCHANGED <<provider, objects, uploads, last, calls, uuids>>

\* the timer of the backoff fires
TimerFires ==
    /\ session.pc = "sleep" /\ ~session.fired
    /\ session' = [session EXCEPT !.fired = TRUE]
    /\ UNCHANGED <<provider, objects, uploads, last, calls, uuids>>

\* the caller cancels the context
Cancel ==
    /\ session.pc \in {"do", "sleep"} /\ ~session.cancelled
    /\ session' = [session EXCEPT
                     !.cancelled = TRUE,
                     !.cancelledAt = [pc |-> session.pc,
                                      calls |-> Len(session.fns)]]
    /\ UNCHANGED <<provider, objects, uploads, last, calls, uuids>>

NextRetry == Attempt \/ Select \/ TimerFires \/ Cancel

SpecRetry == InitRetry /\ [][NextRetry]_vars

----------------------------------------------------------------------------
(* Claims about the retryer (SpecRetry) *)


\* C13: with the default predicate and no cancellation, a run whose fn has
\* failed at every attempt returns only after exactly MaxRetries calls of fn,
\* at the attempts 1..MaxRetries, with the payload of the last attempt and a
\* RetriesExhaustedError that counts MaxRetries attempts and wraps the error
\* of the last attempt (neither a RetriesAbortedError nor that error itself)
C13_ExhaustedAfterMaxRetries ==
    (/\ session.pc = "returned"
     /\ session.options.ShouldRetry = "nil" /\ ~session.cancelled
     /\ \A i \in DOMAIN session.fns : session.fns[i].err # NoError)
    => /\ Len(session.fns) = session.options.MaxRetries
       /\ \A i \in DOMAIN session.fns : session.fns[i].attempt = i
       /\ session.ret.payload = Payload(session.options.MaxRetries)
       /\ session.ret.err =
             RetriesExhaustedError(session.options.MaxRetries,
                 OperationError(session.options.MaxRetries))
       /\ session.ret.err.type # "RetriesAbortedError"
       /\ session.ret.err # OperationError(session.options.MaxRetries)

\* fn has failed MaxAttempts times and the run has given up
C13_Witness ==
    /\ session.pc = "returned"
    /\ session.options.ShouldRetry = "nil" /\ ~session.cancelled
    /\ session.options.MaxRetries = MaxAttempts
    /\ Len(session.fns) = MaxAttempts
    /\ session.ret.err.type = "RetriesExhaustedError"

\* C14: fn is called one attempt after the other, and the first call whose
\* result is not to be retried ends the run: it is the last call of fn, and
\* the run has returned its payload and its error as they are.  With a
\* predicate that declines to retry, the error of a failed attempt is
\* returned itself
C14_FirstUnretriedResultReturned ==
    /\ \A i \in DOMAIN session.fns : session.fns[i].attempt = i
    /\ \A i \in DOMAIN session.fns :
          ~retry(session, session.fns[i].payload, session.fns[i].err)
          => /\ i = Len(session.fns)
             /\ session.pc = "returned"
             /\ session.ret = [payload |-> session.fns[i].payload,
                               err |-> session.fns[i].err]
    /\ (/\ session.pc = "returned"
        /\ session.options.ShouldRetry = "never"
        /\ session.fns # <<>>)
       => session.ret.err = session.fns[1].err

\* a predicate that never retries has ended the run at a failed first
\* attempt, and the error of fn is what the run returned
C14_Witness ==
    /\ session.pc = "returned"
    /\ session.options.ShouldRetry = "never"
    /\ session.options.MaxRetries = MaxAttempts
    /\ Len(session.fns) = 1
    /\ session.ret = [payload |-> Payload(1), err |-> OperationError(1)]

\* C15: once the context is cancelled fn is not called again.  A run whose
\* context was cancelled before an attempt started, or during the backoff
\* while its timer had not fired, returns a RetriesAbortedError and no
\* payload
C15_CancellationAborts ==
    /\ session.cancelled => Len(session.fns) = session.cancelledAt.calls
    /\ (/\ session.pc = "returned" /\ session.cancelled
        /\ (session.cancelledAt.pc = "do" \/ ~session.fired))
       => /\ session.ret.err.type = "RetriesAbortedError"
          /\ session.ret.err.err = ContextCanceled
          /\ session.ret.payload = NoPayload

\* the context was cancelled during the backoff after the last attempt and
\* the run has returned a RetriesAbortedError though its timer never fired
C15_Witness ==
    /\ session.pc = "returned" /\ session.cancelled
    /\ session.cancelledAt.pc = "sleep" /\ ~session.fired
    /\ Len(session.fns) = session.options.MaxRetries
    /\ session.options.MaxRetries = MaxAttempts
    /\ session.ret.err = RetriesAbortedError(MaxAttempts, ContextCanceled)

----------------------------------------------------------------------------
(* Logging of command lines (package log).  An argument is a sequence of    *)
(* characters; in SpecArgs the variable `session` holds the argument list,  *)
(* a second list to compare it with and the flags, and `last` holds what    *)
(* the function called last returned.                                       *)

\* the largest number of arguments
MaxArgs == 3

\* strings.HasPrefix
HasPrefix(s, prefix) == StartsWith(s, prefix)

\* flagMatches comparing the flag with the prefixes for equality
flagEquals(flag, flags) == \E k \in DOMAIN flags : flag = flags[k]

flagMatches(flag, flags) == \E k \in DOMAIN flags : HasPrefix(flag, flags[k])

Stars == <<"*", "*", "*", "*", "*">>

\* fmt.Sprintf("<ud>%s</ud>", s)
UserTag(s) == <<"<ud>">> \o s \o <<"</ud>">>

RECURSIVE MaskFrom(_, _, _)
\* the loop of MaskArguments from the index i on (the first index is 1)
MaskFrom(ret, i, flags) ==
    IF i > Len(ret) THEN ret
    ELSE IF /\ flagMatches(ret[i], flags)
            /\ i + 1 <= Len(ret)
            /\ ~HasPrefix(ret[i + 1], <<"-">>)
    THEN MaskFrom([ret EXCEPT ![i + 1] = Stars], i + 2, flags)
    ELSE MaskFrom(ret, i + 1, flags)

MaskArguments(args, flagsToMask) == MaskFrom(args, 1, flagsToMask)

RECURSIVE TagFrom(_, _, _)
\* the loop of UserTagArguments from the index i on: the slice returned, or
\* the panic of an index out of range
TagFrom(ret, i, flags) ==
    IF i > Len(ret) THEN [ret |-> ret, panic |-> FALSE]
    ELSE IF flagMatches(ret[i], flags)
    THEN IF i + 1 > Len(ret) THEN [ret |-> <<>>, panic |-> TRUE]
         ELSE TagFrom([ret EXCEPT ![i + 1] = UserTag(@)], i + 2, flags)
    ELSE TagFrom(ret, i + 1, flags)

UserTagArguments(args, flagsToTag) == TagFrom(args, 1, flagsToTag)

----------------------------------------------------------------------------
(* SpecArgs: the functions applied to an argument list                      *)

Arguments ==
    {<<"-", "p">>, <<"a">>, <<"b">>, <<"-", "a">>, <<"-", "b">>}

ArgumentLists == UNION {[1..n -> Arguments] : n \in 0..MaxArgs}

FlagLists ==
    {<<>>, << <<"-", "p">> >>, << <<"-">> >>, << <<"a">>, <<"-", "p">> >>}

RECURSIVE ValuesFrom(_, _, _)
\* the indices from i on of the arguments that follow a flag with one of
\* the prefixes: the values given to these flags
ValuesFrom(args, i, flags) ==
    IF i >= Len(args) THEN {}
    ELSE IF \E k \in DOMAIN flags : StartsWith(args[i], flags[k])
    THEN {i + 1} \cup ValuesFrom(args, i + 2, flags)
    ELSE ValuesFrom(args, i + 1, flags)

\* the lists that differ from args at most in the values given to the flags
SameButValues(args, flags) ==
    {other \in [1..Len(args) -> Arguments] :
        \A j \in 1..Len(args) :
            j \notin ValuesFrom(args, 1, flags) => other[j] = args[j]}

InitArgs ==
    /\ provider = "none"
    /\ objects = <<>>
    /\ uploads = <<>>
    /\ \E args \in ArgumentLists, flags \in FlagLists :
          \E other \in SameButValues(args, flags) :
             session = [args |-> args, other |-> other, flags |-> flags]
    /\ last = [op |-> ""]
    /\ calls = <<>>
    /\ uuids = 0

\* MaskArguments(args, flags), and the same for the list to compare with
MaskArgs ==
    /\ last.op = ""
    /\ last' = [op |-> "MaskArguments",
                ret |-> MaskArguments(session.args, session.flags),
                other |-> MaskArguments(session.other, session.flags)]
    /\ UNCHANGED <<provider, objects, uploads, session, calls, uuids>>

\* UserTagArguments(args, flags)
UserTagArgs ==
    /\ last.op = ""
    /\ \E r \in {UserTagArguments(session.args, session.flags)} :
          last' = [op |-> "UserTagArguments", ret |-> r.ret,
                   panic |-> r.panic]
    /\ UNCHANGED <<provider, objects, uploads, session, calls, uuids>>

NextArgs == MaskArgs \/ UserTagArgs

SpecArgs == InitArgs /\ [][NextArgs]_vars

----------------------------------------------------------------------------
(* Claims about the logging of command lines (SpecArgs) *)

\* the argument starts with "-"
Dashed(arg) == arg # <<>> /\ Head(arg) = "-"

\* C16 as claimed: MaskArguments replaces every value given to a flag with
\* one of the prefixes by "*****", so that two lists that differ only in
\* these values give the same result
C16_MaskedValuesHidden ==
    last.op = "MaskArguments"
    => /\ last.ret = last.other
       /\ \A j \in ValuesFrom(session.args, 1, session.flags) :
             last.ret[j] = Stars

\* C16: MaskArguments returns a list of the same length in which every
\* argument that follows a flag with one of the prefixes and does not start
\* with "-" is replaced by "*****" and every other argument is as it was;
\* two lists that differ only in values that do not start with "-" give the
\* same result
C16_UndashedValuesHidden ==
    (/\ last.op = "MaskArguments"
     /\ \A j \in ValuesFrom(session.args, 1, session.flags) :
           ~Dashed(session.args[j]) /\ ~Dashed(session.other[j]))
    => /\ last.ret = last.other
       /\ Len(last.ret) = Len(session.args)
       /\ \A j \in DOMAIN session.args :
             last.ret[j] = IF j \in ValuesFrom(session.args, 1, session.flags)
                           THEN Stars ELSE session.args[j]

\* two lists with different values for the flag -p have the same result
C16_Witness ==
    /\ last.op = "MaskArguments"
    /\ session.flags = << <<"-", "p">> >>
    /\ session.args = << <<"-", "p">>, <<"a">>, <<"b">> >>
    /\ session.other = << <<"-", "p">>, <<"b">>, <<"b">> >>
    /\ last.ret = << <<"-", "p">>, Stars, <<"b">> >>
    /\ last.other = last.ret

\* C17: UserTagArguments returns, for any list and also one that ends with
\* a flag to tag, a list of the same length in which the values that follow
\* a flag to tag are wrapped in <ud></ud> and every other argument is as it
\* was
C17_UserTagKeepsLength ==
    last.op = "UserTagArguments"
    => /\ ~last.panic
       /\ Len(last.ret) = Len(session.args)
       /\ \A j \in DOMAIN session.args :
             last.ret[j] = IF j \in ValuesFrom(session.args, 1, session.flags)
                           THEN UserTag(session.args[j]) ELSE session.args[j]

\* C17 for the lists that do not end with a flag to tag that is not itself
\* the value of the flag before it
C17_UserTagWhenValuePresent ==
    (last.op = "UserTagArguments" /\ ~last.panic)
    => /\ Len(last.ret) = Len(session.args)
       /\ \A j \in DOMAIN session.args :
             last.ret[j] = IF j \in ValuesFrom(session.args, 1, session.flags)
                           THEN UserTag(session.args[j]) ELSE session.args[j]

----------------------------------------------------------------------------
(* SpecSelf: the GCP CompleteMultipartUpload on K given parts lists in     *)
(* which K itself occurs, at any position and any number of times           *)

\* the positions of a parts list at which the destination may stand
SelfPositions(n) == {1, 2, n - 1, n} \cap 1..n

InitSelf ==
    /\ provider = "gcp"
    /\ \E n \in 1..MaxData :
          objects = [k \in {K, partKey("s", K, "p")} |->
                        IF k = K THEN Body("old", n) ELSE Body("p", 1)]
    /\ uploads = <<>>
    /\ session = [NoSession EXCEPT !.id = "s", !.stage = "open"]
    /\ last = NewCall
    /\ calls = <<>>
    /\ uuids = 0

CompleteWithSelf ==
    /\ calls = <<>>
    /\ \E n \in {1, 2, 3, MaxComposable + 1} :
          \E self \in SUBSET SelfPositions(n),
             faults \in {{}, {<<"compose", 1>>}, {<<"delete", 1>>}} :
             Call([op |-> "CompleteMultipartUpload", id |-> session.id,
                   key |-> K,
                   parts |-> [i \in 1..n |->
                                IF i \in self
                                THEN Part(K, i, Len(objects[K]))
                                ELSE Part(partKey("s", K, "p"), i, 1)],
                   faults |-> faults])
    /\ calls' = Append(calls, last')
    /\ UNCHANGED <<provider, session>>

NextSelf == CompleteWithSelf

SpecSelf == InitSelf /\ [][NextSelf]_vars

----------------------------------------------------------------------------
(* Claims about parts lists that name the destination (SpecSelf) *)

\* how often the key occurs among the parts of the call
Occurrences(c) == Cardinality({i \in DOMAIN c.parts : c.parts[i].ID = c.key})

\* C18: whatever the parts list, CompleteMultipartUpload issues no delete
\* request for the destination key, and after a successful call the
\* destination exists
C18_DestinationNeverDeleted ==
    last.op = "CompleteMultipartUpload"
    => /\ \A i \in DOMAIN last.log :
             last.log[i].req = "delete" => last.log[i].key # last.key
       /\ last.ret = Nil => last.key \in DOMAIN objects

\* C18 for the parts lists in which the destination occurs at most once
C18_SingleOccurrenceKept ==
    (last.op = "CompleteMultipartUpload" /\ Occurrences(last) <= 1)
    => /\ \A i \in DOMAIN last.log :
             last.log[i].req = "delete" => last.log[i].key # last.key
       /\ last.ret = Nil => last.key \in DOMAIN objects

----------------------------------------------------------------------------
(* Claims about the failures of AppendToObject (SpecAppend) *)

\* C19: when the attributes request of the GCP AppendToObject fails with an
\* error other than not found, the call returns that error wrapped as
\* "failed to get object attributes" and has issued no other request
C19_AppendReturnsAttrsFailure ==
    (/\ last.op = "AppendToObject" /\ last.provider = "gcp"
     /\ last.log # <<>>
     /\ last.log[1].req = "attrs"
     /\ last.log[1].err \notin {"", "notfound"})
    => /\ last.pc = "done"
       /\ last.ret = Wrap("failed to get object attributes",
                          GcpHandleError(last.log[1].err))
       /\ Len(last.log) = 1

\* the requests of the multipart path that follow the creation of the
\* upload
MultipartSteps(c) ==
    SelectSeq(c.log, LAMBDA r : r.req \in {"UploadPartCopy", "UploadPart",
                                           "CompleteMultipartUpload"})

\* the label copyAndAppend puts on the failure of a request
PhaseLabel(req) ==
    CASE req = "UploadPartCopy" -> "failed to copy source object"
      [] req = "UploadPart" -> "failed to upload part"
      [] req = "CompleteMultipartUpload" ->
            "failed to complete multipart upload"

\* C20: an AWS AppendToObject that has created a multipart upload and then
\* sees UploadPartCopy, UploadPart or CompleteMultipartUpload fail issues
\* exactly one AbortMultipartUpload, for that upload, as its last request,
\* and returns the failure of the step under the label of its phase,
\* whether or not the abort succeeds; when no step fails it issues no abort
\* and returns nil
C20_FailedAppendAbortsOnce ==
    (/\ last.op = "AppendToObject" /\ last.provider = "aws"
     /\ last.pc = "done"
     /\ Issued(last, "CreateMultipartUpload") # <<>>
     /\ Issued(last, "CreateMultipartUpload")[1].err = "")
    => LET failed == SelectSeq(MultipartSteps(last), LAMBDA r : r.err # "")
           aborts == Issued(last, "AbortMultipartUpload")
       IN  IF failed # <<>>
           THEN /\ Len(failed) = 1
                /\ failed[1] = MultipartSteps(last)[Len(MultipartSteps(last))]
                /\ Len(aborts) = 1
                /\ last.log[Len(last.log)] = aborts[1]
                /\ aborts[1].id = Issued(last, "CreateMultipartUpload")[1].newid
                /\ aborts[1].key = last.key
                /\ last.ret # Nil
                /\ last.ret[1] = PhaseLabel(failed[1].req)
                /\ last.ret[Len(last.ret)] = failed[1].err
           ELSE aborts = <<>> /\ last.ret = Nil

\* the completion has failed, the abort has failed as well, and the call
\* has returned the failure of the completion
C20_Witness ==
    /\ last.op = "AppendToObject" /\ last.provider = "aws"
    /\ last.pc = "done"
    /\ Len(last.log) = 6
    /\ last.log[5].req = "CompleteMultipartUpload" /\ last.log[5].err # ""
    /\ last.log[6].req = "AbortMultipartUpload" /\ last.log[6].err # ""
    /\ last.ret[1] = "failed to complete multipart upload"
    /\ last.logged # <<>>

\* C21: when the GCP AppendToObject on an existing object that is not empty
\* returns, with nil or with an error, no object under the part prefix of
\* the multipart upload it created is left in the bucket
C21_AppendLeavesNoSession ==
    (/\ last.op = "AppendToObject" /\ last.provider = "gcp"
     /\ last.pc = "done"
     /\ last.key \in DOMAIN last.before
     /\ last.before[last.key] # <<>>
     /\ last.id # "")
    => Matching(objects, partPrefix(last.id, last.key)) = {}

\* C21 for the calls all of whose requests succeeded
C21_SuccessfulAppendLeavesNoSession ==
    (/\ last.op = "AppendToObject" /\ last.provider = "gcp"
     /\ last.pc = "done"
     /\ last.key \in DOMAIN last.before
     /\ last.before[last.key] # <<>>
     /\ last.id # ""
     /\ \A i \in DOMAIN last.log : last.log[i].err = "")
    => /\ last.ret = Nil
       /\ Matching(objects, partPrefix(last.id, last.key)) = {}

\* the kinds of the requests of a call, in the order they were issued
Requests(c) == [i \in DOMAIN c.log |-> c.log[i].req]

\* C27: an AWS AppendToObject on an existing object follows one strategy,
\* chosen by the size of the object.  Below MinUploadSize it never creates
\* a multipart upload and, when no request fails, issues HeadObject,
\* GetObject of the whole object and one PutObject of old ++ new.  From
\* MinUploadSize on it never gets the object and, when no request fails,
\* issues HeadObject, CreateMultipartUpload, UploadPartCopy of bytes
\* 0..size-1 of the key as part 1, UploadPart of the data as part 2 and
\* CompleteMultipartUpload of parts 1, 2 of that upload
C27_AppendStrategyBySize ==
    (/\ last.op = "AppendToObject" /\ last.provider = "aws"
     /\ last.pc = "done"
     /\ last.key \in DOMAIN last.before
     /\ Issued(last, "HeadObject")[1].err = "")
    => LET old == last.before[last.key]
           log == last.log
       IN  IF Len(old) < MinUploadSize
           THEN /\ Issued(last, "CreateMultipartUpload") = <<>>
                /\ MultipartSteps(last) = <<>>
                /\ uploads = last.uploadsBefore
                /\ last.faults = {}
                   => /\ Requests(last)
                           = <<"HeadObject", "GetObject", "PutObject">>
                      /\ log[2].key = last.key /\ log[2].range = <<>>
                      /\ log[3].key = last.key
                      /\ log[3].body = old \o last.data
                      /\ last.ret = Nil
           ELSE /\ Issued(last, "GetObject") = <<>>
                /\ Issued(last, "PutObject") = <<>>
                /\ Len(Issued(last, "CreateMultipartUpload")) = 1
                /\ last.faults = {}
                   => /\ Requests(last)
                           = <<"HeadObject", "CreateMultipartUpload",
                               "UploadPartCopy", "UploadPart",
                               "CompleteMultipartUpload">>
                      /\ log[3].id = log[2].newid /\ log[3].number = 1
                      /\ log[3].src = last.key /\ log[3].key = last.key
                      /\ log[3].range
                            = RangeString(ByteRange(0, Len(old) - 1))
                      /\ log[4].id = log[2].newid /\ log[4].number = 2
                      /\ log[4].body = last.data
                      /\ log[5].id = log[2].newid /\ log[5].key = last.key
                      /\ [i \in DOMAIN log[5].parts |->
                             log[5].parts[i].PartNumber] = <<1, 2>>
                      /\ last.ret = Nil
                      /\ uploads = last.uploadsBefore

\* an append to an object of exactly MinUploadSize has copied and uploaded
\* through a multipart upload, and one to an object one block shorter has
\* downloaded and put
C27_Witness ==
    /\ Len(calls) = 2
    /\ \A i \in 1..2 :
          /\ calls[i].op = "AppendToObject" /\ calls[i].provider = "aws"
          /\ calls[i].faults = {} /\ calls[i].ret = Nil
          /\ K \in DOMAIN calls[i].before
    /\ Len(calls[1].before[K]) = MinUploadSize - 1
    /\ Requests(calls[1]) = <<"HeadObject", "GetObject", "PutObject">>
    /\ Len(calls[2].before[K]) = MinUploadSize
    /\ Len(calls[2].log) = 5
    /\ Requests(calls[2])[2] = "CreateMultipartUpload"
    /\ Len(objects[K]) = MinUploadSize + 1

----------------------------------------------------------------------------
(* SpecBatch: a client of S3 deleting more keys than one request may hold,  *)
(* and then the same keys again                                             *)

\* the i-th key of a long list
Numbered(i) == <<"d", ToString(i)>>

\* the lengths of the lists: around one and two pages
BatchLengths ==
    {0, 1, PageSize - 1, PageSize, PageSize + 1, 2 * PageSize,
     2 * PageSize + 1}

\* the n-th request fails, or the service refuses to delete one key of the
\* first, the second or the third batch
BatchOracles ==
    {[faults |-> {}, denied |-> {}, drain |-> FALSE]}
    \cup {[faults |-> {<<"DeleteObjects", n>>}, denied |-> {},
           drain |-> FALSE] : n \in 1..3}
    \cup {[faults |-> {}, denied |-> {Numbered(i)}, drain |-> FALSE] :
          i \in {1, PageSize + 1, 2 * PageSize + 1}}

InitBatch ==
    /\ provider = "aws"
    /\ \E n \in {0, 2 * PageSize + 1} :
          objects = [k \in {Numbered(i) : i \in 1..n} \cup {Other} |->
                       Body("d", 1)]
    /\ uploads = <<>>
    /\ session = NoSession
    /\ last = NewCall
    /\ calls = <<>>
    /\ uuids = 0

DeleteBatches ==
    /\ calls = <<>>
    /\ \E n \in BatchLengths, oracle \in BatchOracles :
          Call([op |-> "DeleteObjects",
                keys |-> [i \in 1..n |-> Numbered(i)]] @@ oracle)
    /\ calls' = Append(calls, last')
    /\ UNCHANGED <<provider, session>>

DeleteBatchesAgain ==
    /\ Len(calls) = 1
    /\ \E oracle \in BatchOracles :
          Call([op |-> "DeleteObjects", keys |-> last.keys] @@ oracle)
    /\ calls' = Append(calls, last')
    /\ UNCHANGED <<provider, session>>

NextBatch == DeleteBatches \/ DeleteBatchesAgain

SpecBatch == InitBatch /\ [][NextBatch]_vars

\* the number of batches n keys need
BatchCount(n) == (n + PageSize - 1) \div PageSize

\* the error deleteObjects returns for a batch: that of the request, or
\* that of the first key the service refused
BatchError(r) ==
    IF r.err # "" THEN AwsHandleError(r.err)
    ELSE IF \E i \in DOMAIN r.keys : r.keys[i] \in r.denied
    THEN AwsHandleError("AccessDenied")
    ELSE Nil

\* C28: the AWS DeleteObjects of n keys issues its batch deletes one after
\* the other; the i-th holds the keys (i - 1) * PageSize + 1 to
\* i * PageSize of the list (fewer in the last), so between 1 and PageSize
\* keys each and every key in one batch; a batch that fails is the last
\* one issued and its error is returned; when none fails there are
\* ceil(n / PageSize) batches, none for n = 0, and nil is returned
C28_DeleteObjectsBatches ==
    (last.op = "DeleteObjects" /\ last.provider = "aws" /\ last.pc = "done")
    => LET n == Len(last.keys)
           batches == last.log
       IN  /\ \A i \in DOMAIN batches :
                 /\ batches[i].req = "DeleteObjects"
                 /\ Len(batches[i].keys) \in 1..PageSize
                 /\ batches[i].keys
                       = SubSeq(last.keys, (i - 1) * PageSize + 1,
                                IF i * PageSize < n THEN i * PageSize ELSE n)
                 /\ BatchError(batches[i]) # Nil
                    => i = Len(batches) /\ last.ret = BatchError(batches[i])
           /\ Len(batches) <= BatchCount(n)
           /\ (\A i \in DOMAIN batches : BatchError(batches[i]) = Nil)
              => /\ Len(batches) = BatchCount(n)
                 /\ last.ret = Nil
                 /\ \A i \in 1..n : last.keys[i] \notin DOMAIN objects

\* 2 * PageSize + 1 keys have gone out in three batches, the last of one
\* key; repeated, the second batch has failed and no third was issued
C28_Witness ==
    /\ Len(calls) = 2
    /\ Len(calls[1].keys) = 2 * PageSize + 1
    /\ calls[1].ret = Nil
    /\ Len(calls[1].log) = 3
    /\ Len(calls[1].log[3].keys) = 1
    /\ calls[2].ret # Nil
    /\ Len(calls[2].log) = 2
    /\ calls[2].log[2].err # ""

----------------------------------------------------------------------------
(* SpecParts: one multipart session on K against the GCP client: parts are  *)
(* uploaded or copied under numbers of the caller's choice, and listed; one *)
(* of these calls may fail                                                  *)

MaxUploads == 3

\* the part of a session that is not the caller's
Foreign == partKey("s", K, "f")

InitParts ==
    /\ provider = "gcp"
    /\ objects \in {[k \in {Other} |-> Body("other", 1)],
                    [k \in {Other, K, Foreign} |-> Body(k[1], 2)]}
    /\ uploads = <<>>
    /\ session = NoSession
    /\ last = NewCall
    /\ calls = <<>>
    /\ uuids = 0

PartsCreate ==
    /\ session.stage = "none"
    /\ Call([op |-> "CreateMultipartUpload", key |-> K])
    /\ session' = [session EXCEPT !.id = last'.out, !.stage = "open"]
    /\ UNCHANGED <<provider, calls>>

\* what the session keeps of a call that returned a part
Uploaded(c, isNew) ==
    [op |-> c.op, number |-> c.number, data |-> c.data, src |-> c.src,
     out |-> c.out, isNew |-> isNew]

PartsUpload ==
    /\ session.stage = "open"
    /\ Len(session.parts) < MaxUploads
    /\ \E number \in 1..2, n \in 1..2,
          faults \in IF session.dirty THEN {{}} ELSE {{}, {<<"write", 1>>}} :
          Call([op |-> "UploadPart", id |-> session.id, key |-> K,
                number |-> number, data |-> Body("part", n),
                faults |-> faults])
    /\ session' = IF last'.ret # Nil THEN [session EXCEPT !.dirty = TRUE]
                  ELSE [session EXCEPT !.parts =
                          Append(@, Uploaded(last', last'.out.ID
                                                       \notin DOMAIN objects))]
    /\ UNCHANGED <<provider, calls>>

PartsCopy ==
    /\ session.stage = "open"
    /\ Len(session.parts) < MaxUploads
    /\ \E number \in 1..2,
          faults \in IF session.dirty THEN {{}} ELSE {{}, {<<"copy", 1>>}} :
          Call([op |-> "UploadPartCopy", id |-> session.id, key |-> K,
                src |-> Other, number |-> number, faults |-> faults])
    /\ session' = IF last'.ret # Nil THEN [session EXCEPT !.dirty = TRUE]
                  ELSE [session EXCEPT !.parts =
                          Append(@, Uploaded(last', last'.out.ID
                                                       \notin DOMAIN objects))]
    /\ UNCHANGED <<provider, calls>>

PartsList ==
    /\ session.stage = "open"
    /\ \E faults \in {{}, {<<"list", 1>>}} :
          Call([op |-> "ListParts", id |-> session.id, key |-> K,
                faults |-> faults])
    /\ UNCHANGED <<provider, calls, session>>

NextParts == PartsCreate \/ PartsUpload \/ PartsCopy \/ PartsList

SpecParts == InitParts /\ [][NextParts]_vars

\* the calls of UploadPart that have returned a part to the session
UploadedParts ==
    {i \in DOMAIN session.parts : session.parts[i].op = "UploadPart"}

\* what C29 says of the part itself: it is an object of the bucket that
\* holds the body, its ID is the key of that object, its Number the number
\* given and its Size the length of the body
PartAsUploaded(u) ==
    /\ u.out.ID \in DOMAIN objects
    /\ objects[u.out.ID] = u.data
    /\ u.out.Number = u.number
    /\ u.out.Size = Len(u.data)

\* C29 as claimed: the key of an uploaded part is a function of the
\* session, the key and the number: two parts of one session uploaded
\* under the same number have the same ID, and two uploaded under
\* different numbers have different IDs
C29_PartKeyFromNumber ==
    /\ \A i \in UploadedParts : PartAsUploaded(session.parts[i])
    /\ \A i, j \in UploadedParts :
          (session.parts[i].number = session.parts[j].number)
             <=> (session.parts[i].out.ID = session.parts[j].out.ID)

\* C29 as amended: the key of an uploaded part is a key under the prefix
\* of the session that was not in the bucket before the call, whatever the
\* number: any two parts of one session, uploaded or copied, under
\* different numbers or under the same, have different IDs, and each
\* uploaded part still holds its body
C29_PartKeyFresh ==
    /\ \A i \in UploadedParts :
          /\ PartAsUploaded(session.parts[i])
          /\ session.parts[i].isNew
          /\ StartsWith(session.parts[i].out.ID, partPrefix(session.id, K))
    /\ \A i, j \in DOMAIN session.parts :
          (i \in UploadedParts /\ i # j)
          => session.parts[i].out.ID # session.parts[j].out.ID

\* two parts uploaded under the number 1 and a third under the number 2
\* are three objects of the bucket
C29_Witness ==
    /\ Len(session.parts) = 3
    /\ UploadedParts = 1..3
    /\ session.parts[1].number = 1 /\ session.parts[2].number = 1
    /\ session.parts[3].number = 2
    /\ Cardinality({session.parts[i].out.ID : i \in 1..3}) = 3
    /\ \A i \in 1..3 : objects[session.parts[i].out.ID]
                           = session.parts[i].data

\* the ID and the Size of each part of a sequence of parts
Listed(parts) == {[ID |-> parts[i].ID, Size |-> parts[i].Size] :
                     i \in DOMAIN parts}

\* C30: a ListParts that succeeds returns as many parts as the session has
\* uploaded or copied, one for each with the ID the upload returned and
\* the size of the object stored, none with a Number, and nothing else
C30_ListPartsReturnsParts ==
    (last.op = "ListParts" /\ last.ret = Nil)
    => /\ Len(last.out) = Len(session.parts)
       /\ Listed(last.out)
             = {[ID |-> session.parts[i].out.ID,
                 Size |-> Len(objects[session.parts[i].out.ID])] :
                i \in DOMAIN session.parts}
       /\ \A i \in DOMAIN last.out : last.out[i].Number = 0

\* what ListParts does return: nothing for a session without parts, and
\* otherwise one part for the directory of the session, of size 0
C30_ListPartsReturnsStub ==
    (last.op = "ListParts" /\ last.ret = Nil)
    => last.out = IF session.parts = <<>> THEN <<>>
                  ELSE <<Part(partPrefix(session.id, K) \o <<"/">>, 0, 0)>>

\* C31: the part a successful UploadPart or UploadPartCopy has returned to
\* the session carries in Number the number the caller passed to the call
C31_PartCarriesNumber ==
    \A i \in DOMAIN session.parts :
       session.parts[i].out.Number = session.parts[i].number

\* what holds instead: the parts of UploadPart carry the number, those of
\* UploadPartCopy carry no number
C31_CopiedPartHasNoNumber ==
    \A i \in DOMAIN session.parts :
       session.parts[i].out.Number
          = IF session.parts[i].op = "UploadPart"
            THEN session.parts[i].number ELSE 0

\* C32: when an AWS AppendToObject returns, every body it has obtained
\* through GetObject has been closed
C32_AppendClosesBodies ==
    (last.op = "AppendToObject" /\ last.provider = "aws"
     /\ last.pc = "done")
    => last.closed = last.bodies

\* what holds instead: the call obtains one body for each GetObject that
\* succeeded and closes none, however it returns
C32_AppendClosesNoBody ==
    (last.op = "AppendToObject" /\ last.provider = "aws"
     /\ last.pc = "done")
    => /\ last.closed = 0
       /\ last.bodies
             = Len(SelectSeq(Issued(last, "GetObject"),
                             LAMBDA r : r.err = ""))

\* the attempts whose result was to be retried and whose number is below
\* MaxRetries
RetriedEarly(r) ==
    SelectSeq(r.fns, LAMBDA f : /\ retry(r, f.payload, f.err)
                                /\ f.attempt < r.options.MaxRetries)

\* C33: with a Cleanup hook, the payloads cleaned up are those of the
\* attempts that were to be retried and were not the MaxRetries-th, each
\* once and in their order; the hook has run by the time the backoff of
\* such an attempt begins; neither the payload of the MaxRetries-th
\* attempt nor the payload the run returns is ever cleaned up; without a
\* hook nothing is
C33_CleanupAllButFinal ==
    /\ session.cleaned
          = IF session.options.Cleanup
            THEN [i \in DOMAIN RetriedEarly(session) |->
                     RetriedEarly(session)[i].payload]
            ELSE <<>>
    /\ (/\ session.options.Cleanup /\ session.pc = "sleep"
        /\ session.attempt < session.options.MaxRetries)
       => session.cleaned[Len(session.cleaned)] = Payload(session.attempt)
    /\ Payload(session.options.MaxRetries) \notin Range(session.cleaned)
    /\ session.pc = "returned"
       => session.ret.payload \notin Range(session.cleaned)

\* a run of MaxAttempts failed attempts has cleaned up the payloads of all
\* but the last and has returned the payload of the last
C33_Witness ==
    /\ session.pc = "returned"
    /\ session.options.Cleanup
    /\ session.options.MaxRetries = MaxAttempts
    /\ Len(session.fns) = MaxAttempts
    /\ session.cleaned = [i \in 1..MaxAttempts - 1 |-> Payload(i)]
    /\ session.ret.payload = Payload(MaxAttempts)

\* C34: the run sleeps only between attempts, never after the
\* MaxRetries-th; once the MaxRetries-th attempt has been made and is to be
\* retried, the run returns RetriesExhaustedError and the payload of that
\* attempt, whether or not the context is cancelled afterwards
C34_NoSleepAfterFinalAttempt ==
    /\ session.pc = "sleep" => session.attempt < session.options.MaxRetries
    /\ (/\ session.pc = "returned"
        /\ Len(session.fns) = session.options.MaxRetries
        /\ retry(session, session.fns[Len(session.fns)].payload,
                 session.fns[Len(session.fns)].err))
       => /\ session.ret.err.type = "RetriesExhaustedError"
          /\ session.ret.payload = Payload(session.options.MaxRetries)

\* what holds instead: every attempt that is to be retried is followed by
\* a backoff, the MaxRetries-th included, and a cancellation that the
\* select of that last backoff takes ends the run with RetriesAbortedError
\* and no payload
C34_SleepsAfterEveryAttempt ==
    /\ session.sleeps
          = Len(SelectSeq(session.fns,
                          LAMBDA f : retry(session, f.payload, f.err)))
    /\ (/\ session.pc = "returned"
        /\ Len(session.fns) = session.options.MaxRetries
        /\ retry(session, session.fns[Len(session.fns)].payload,
                 session.fns[Len(session.fns)].err))
       => \/ /\ session.ret.err.type = "RetriesExhaustedError"
             /\ session.ret.payload = Payload(session.options.MaxRetries)
          \/ /\ session.cancelled
             /\ session.ret.err
                   = RetriesAbortedError(session.options.MaxRetries,
                                         ContextCanceled)
             /\ session.ret.payload = NoPayload

============================================================================
